---------------------------- MODULE Spec2Model ----------------------------
(***************************************************************************)
(* elephant-vm: scanner, single-pass Pratt compiler and bytecode VM.       *)
(*                                                                         *)
(* A source text is a sequence of one-character strings.  Scanner and      *)
(* compiler are pure operators over their state records, translated        *)
(* method by method; the VM is a state machine whose actions are one       *)
(* call of VM::interpret up to the start of VM::run and one iteration of   *)
(* the dispatch loop of VM::run.                                           *)
(*                                                                         *)
(* Numbers are modelled as exact rationals n/d (d > 0), with d = 0 for     *)
(* the IEEE specials (1/0 = inf, -1/0 = -inf, 0/0 = NaN); rounding of      *)
(* f64 is not modelled.                                                    *)
(***************************************************************************)
EXTENDS Integers, Sequences, FiniteSets, TLC

(***************************************************************************)
(* chunk.rs: OpCode                                                        *)
(***************************************************************************)
OP_RETURN == 0
OP_CONSTANT == 1
OP_NEGATE == 2
OP_ADD == 3
OP_SUBTRACT == 4
OP_MULTIPLY == 5
OP_DIVIDE == 6
OP_NIL == 7
OP_TRUE == 8
OP_FALSE == 9
OP_NOT == 10
OP_EQUAL == 11
OP_GREATER == 12
OP_LESS == 13
OP_PRINT == 14
OP_POP == 15
OP_DEFINE_GLOBAL == 16
OP_GET_GLOBAL == 17
OP_SET_GLOBAL == 18
OP_GET_LOCAL == 19
OP_SET_LOCAL == 20
\* compiler.rs names these three variants, the enum of chunk.rs does not
\* declare them; they are numbered after the last declared variant.
OP_JUMP_IF_FALSE == 21
OP_JUMP == 22
OP_LOOP == 23

STACK_SIZE == 256
STACK_MAX == 256
U8_MAX == 255
U16_MAX == 65535

(***************************************************************************)
(* value.rs: Value                                                         *)
(***************************************************************************)
Nil == [t |-> "nil", b |-> FALSE, n |-> 0, d |-> 1, s |-> <<>>]
Boolean(x) == [t |-> "bool", b |-> x, n |-> 0, d |-> 1, s |-> <<>>]
ObjString(chars) == [t |-> "str", b |-> FALSE, n |-> 0, d |-> 1, s |-> chars]

Abs(x) == IF x < 0 THEN -x ELSE x
Sign(x) == IF x < 0 THEN -1 ELSE IF x > 0 THEN 1 ELSE 0

RECURSIVE Gcd(_, _)
Gcd(a, b) == IF b = 0 THEN a ELSE Gcd(b, a % b)

\* an f64 as the rational num/den in lowest terms; den = 0 is inf, -inf, NaN
Number(num, den) ==
    IF den = 0
    THEN [t |-> "num", b |-> FALSE, n |-> Sign(num), d |-> 0, s |-> <<>>]
    ELSE LET g == Gcd(Abs(num), Abs(den))
             sg == IF den < 0 THEN -1 ELSE 1
         IN [t |-> "num", b |-> FALSE, n |-> (sg * num) \div g,
             d |-> Abs(den) \div g, s |-> <<>>]

is_number(v) == v.t = "num"
is_string(v) == v.t = "str"
IsNaN(v) == v.t = "num" /\ v.d = 0 /\ v.n = 0

\* is_falsey with the truthiness of C: the number 0 and the empty string
\* count as false too
is_falsey_ZeroFalsey(v) ==
    CASE v.t = "bool" -> ~v.b
      [] v.t = "nil" -> TRUE
      [] v.t = "num" -> v.n = 0 /\ v.d # 0
      [] v.t = "str" -> v.s = <<>>
      [] OTHER -> FALSE

is_falsey(v) ==
    CASE v.t = "bool" -> ~v.b
      [] v.t = "nil" -> TRUE
      [] OTHER -> FALSE

\* IEEE equality of two numbers: NaN differs from everything
NumEq(a, b) == ~IsNaN(a) /\ ~IsNaN(b) /\ a.n = b.n /\ a.d = b.d

\* values_equal that compares values of different variants by their
\* truthiness, so that nil equals false and "1" equals 1
values_equal_Truthy(a, b) ==
    CASE a.t = "nil" /\ b.t = "nil" -> TRUE
      [] a.t = "bool" /\ b.t = "bool" -> a.b = b.b
      [] a.t = "num" /\ b.t = "num" -> NumEq(a, b)
      [] a.t = "str" /\ b.t = "str" -> a.s = b.s
      [] OTHER -> is_falsey(a) = is_falsey(b)

\* the FNV-1a hash is a function of the content; two strings with
\* different hashes have different contents, so the hash test followed by
\* the content test decides by content
values_equal(a, b) ==
    CASE a.t = "nil" /\ b.t = "nil" -> TRUE
      [] a.t = "bool" /\ b.t = "bool" -> a.b = b.b
      [] a.t = "num" /\ b.t = "num" -> NumEq(a, b)
      [] a.t = "str" /\ b.t = "str" -> a.s = b.s
      [] OTHER -> FALSE

NumAdd(a, b) ==
    IF a.d = 0 \/ b.d = 0
    THEN IF IsNaN(a) \/ IsNaN(b) THEN Number(0, 0)
         ELSE IF a.d = 0 /\ b.d = 0
              THEN (IF a.n = b.n THEN a ELSE Number(0, 0))
              ELSE (IF a.d = 0 THEN a ELSE b)
    ELSE Number(a.n * b.d + b.n * a.d, a.d * b.d)

NumNeg(a) == Number(-a.n, a.d)
NumSub(a, b) == NumAdd(a, NumNeg(b))

NumMul(a, b) ==
    IF a.d = 0 \/ b.d = 0
    THEN IF IsNaN(a) \/ IsNaN(b) \/ a.n = 0 \/ b.n = 0 THEN Number(0, 0)
         ELSE Number(Sign(a.n) * Sign(b.n), 0)
    ELSE Number(a.n * b.n, a.d * b.d)

NumDiv(a, b) ==
    IF a.d = 0 \/ b.d = 0
    THEN IF IsNaN(a) \/ IsNaN(b) \/ (a.d = 0 /\ b.d = 0) THEN Number(0, 0)
         ELSE IF a.d = 0 THEN Number(Sign(a.n) * (IF b.n < 0 THEN -1 ELSE 1), 0)
              ELSE Number(0, 1)
    ELSE IF b.n = 0 THEN Number(Sign(a.n), 0)
         ELSE Number(a.n * b.d, a.d * b.n)

NumLess(a, b) ==
    IF IsNaN(a) \/ IsNaN(b) THEN FALSE
    ELSE IF a.d = 0 /\ b.d = 0 THEN a.n < b.n
    ELSE IF a.d = 0 THEN a.n < 0
    ELSE IF b.d = 0 THEN b.n > 0
    ELSE a.n * b.d < b.n * a.d

NumGreater(a, b) == NumLess(b, a)

(***************************************************************************)
(* scanner.rs                                                              *)
(***************************************************************************)
NUL == "NUL"

Alpha ==
    {"a", "b", "c", "d", "e", "f", "g", "h", "i", "j", "k", "l", "m",
     "n", "o", "p", "q", "r", "s", "t", "u", "v", "w", "x", "y", "z",
     "A", "B", "C", "D", "E", "F", "G", "H", "I", "J", "K", "L", "M",
     "N", "O", "P", "Q", "R", "S", "T", "U", "V", "W", "X", "Y", "Z", "_"}

DigitVal ==
    [c \in {"0", "1", "2", "3", "4", "5", "6", "7", "8", "9"} |->
        CASE c = "0" -> 0 [] c = "1" -> 1 [] c = "2" -> 2 [] c = "3" -> 3
          [] c = "4" -> 4 [] c = "5" -> 5 [] c = "6" -> 6 [] c = "7" -> 7
          [] c = "8" -> 8 [] c = "9" -> 9]

is_alpha(c) == c \in Alpha
is_digit(c) == c \in DOMAIN DigitVal

\* the characters outside ASCII that the sources of the model use, by the
\* number of bytes of their UTF-8 encoding (char::len_utf8)
Wide2 == {"U+00E9"}
Wide3 == {"U+20AC"}

Utf8Len(c) == IF c \in Wide2 THEN 2 ELSE IF c \in Wide3 THEN 3 ELSE 1

\* the number of bytes of the first k characters
RECURSIVE ByteOffset(_, _)
ByteOffset(chars, k) ==
    IF k = 0 THEN 0 ELSE ByteOffset(chars, k - 1) + Utf8Len(chars[k])

\* str::len: the length in bytes
StrLen(chars) == ByteOffset(chars, Len(chars))

\* source.len()
SourceLen(sc) == sc.source_len

\* source.chars().nth(n).unwrap_or('\0')
CharsNth(src, n) == IF n < Len(src) THEN src[n + 1] ELSE NUL

\* source[from..to] panics unless from <= to and both are byte offsets at
\* which a character of the source starts or the source ends
SlicePanics(sc, from, to) ==
    IF sc.source_len = Len(sc.source)
    THEN from > to \/ to > Len(sc.source)
    ELSE LET boundaries ==
                {ByteOffset(sc.source, k) : k \in 0..Len(sc.source)}
         IN from > to \/ from \notin boundaries \/ to \notin boundaries

\* the token type given to the record of a call that panicked and so
\* returned no token
NoToken == "none"

\* source[from..to]
Slice(sc, from, to) ==
    IF sc.source_len = Len(sc.source)
    THEN SubSeq(sc.source, from + 1, to)
    ELSE LET inside == {k \in 1..Len(sc.source) :
                            /\ from <= ByteOffset(sc.source, k - 1)
                            /\ ByteOffset(sc.source, k - 1) < to}
         IN IF inside = {} THEN <<>>
            ELSE SubSeq(sc.source,
                        CHOOSE k \in inside : \A j \in inside : k <= j,
                        CHOOSE k \in inside : \A j \in inside : j <= k)

\* the scanner record holds source.len() in source_len, and in panicked
\* whether a call of one of its methods has ended in a Rust panic
init_scanner(source) ==
    [source |-> source, source_len |-> StrLen(source),
     start |-> 0, current |-> 0, line |-> 1, panicked |-> FALSE]

is_at_end(sc) == sc.current >= SourceLen(sc)

scanner_advance(sc) ==
    IF ~is_at_end(sc) THEN [sc EXCEPT !.current = @ + 1] ELSE sc

\* the character scanner_advance returns
scanner_advance_char(sc) ==
    IF ~is_at_end(sc) THEN CharsNth(sc.source, sc.current) ELSE NUL

scanner_peek(sc) ==
    IF is_at_end(sc) THEN NUL ELSE CharsNth(sc.source, sc.current)

peek_next(sc) ==
    IF sc.current + 1 >= SourceLen(sc) THEN NUL
    ELSE CharsNth(sc.source, sc.current + 1)

\* match_char: the scanner after the call; it matched iff current moved
match_char(sc, value) ==
    IF is_at_end(sc) THEN sc
    ELSE IF sc.current >= Len(sc.source) THEN [sc EXCEPT !.panicked = TRUE]
    ELSE IF CharsNth(sc.source, sc.current) # value THEN sc
    ELSE [sc EXCEPT !.current = @ + 1]

make_token(sc, token_type) ==
    [token_type |-> token_type, start |-> sc.start,
     length |-> sc.current - sc.start, line |-> sc.line, error_msg |-> <<>>]

\* message.len() of the two messages the scanner produces
MessageLen(message) ==
    CASE message = "Unexpected character." -> 21
      [] message = "Unterminated string." -> 20

error_token(sc, message) ==
    [token_type |-> "Error", start |-> sc.start,
     length |-> MessageLen(message), line |-> sc.line,
     error_msg |-> <<message>>]

RECURSIVE skip_comment(_)
skip_comment(sc) ==
    IF scanner_peek(sc) # "\n" /\ ~is_at_end(sc)
    THEN skip_comment(scanner_advance(sc))
    ELSE sc

\* Scanner::skip_whitespace passing a line feed without counting the line
RECURSIVE skip_whitespace_NoLine(_)
skip_whitespace_NoLine(sc) ==
    LET Skip(c) ==
          CASE c \in {" ", "\r", "\t", "\n"} ->
                    skip_whitespace_NoLine(scanner_advance(sc))
            [] c = "/" ->
                    IF peek_next(sc) = "/"
                    THEN skip_whitespace_NoLine(skip_comment(sc))
                    ELSE sc
            [] OTHER -> sc
    IN Skip(scanner_peek(sc))

RECURSIVE skip_whitespace(_)
skip_whitespace(sc) ==
    LET Skip(c) ==
          CASE c \in {" ", "\r", "\t"} ->
                    skip_whitespace(scanner_advance(sc))
            [] c = "\n" ->
                    skip_whitespace(
                        scanner_advance([sc EXCEPT !.line = @ + 1]))
            [] c = "/" ->
                    IF peek_next(sc) = "/"
                    THEN skip_whitespace(skip_comment(sc))
                    ELSE sc
            [] OTHER -> sc
    IN Skip(scanner_peek(sc))

check_keyword(sc, start, length, rest, token_type) ==
    IF sc.current - sc.start = start + length
    THEN IF SlicePanics(sc, sc.start + start, sc.current) THEN NoToken
         ELSE IF Slice(sc, sc.start + start, sc.current) = rest
         THEN token_type
         ELSE "Identifier"
    ELSE "Identifier"

identifier_type(sc) ==
    LET c0 == CharsNth(sc.source, sc.start)
        c1 == CharsNth(sc.source, sc.start + 1)
    IN
    CASE c0 = "a" -> check_keyword(sc, 1, 2, <<"n", "d">>, "And")
      [] c0 = "c" -> check_keyword(sc, 1, 4, <<"l", "a", "s", "s">>, "Class")
      [] c0 = "e" -> check_keyword(sc, 1, 3, <<"l", "s", "e">>, "Else")
      [] c0 = "i" -> check_keyword(sc, 1, 1, <<"f">>, "If")
      [] c0 = "n" -> check_keyword(sc, 1, 2, <<"i", "l">>, "Nil")
      [] c0 = "o" -> check_keyword(sc, 1, 1, <<"r">>, "Or")
      [] c0 = "p" -> check_keyword(sc, 1, 4, <<"r", "i", "n", "t">>, "Print")
      [] c0 = "r" ->
            check_keyword(sc, 1, 5, <<"e", "t", "u", "r", "n">>, "Return")
      [] c0 = "s" -> check_keyword(sc, 1, 4, <<"u", "p", "e", "r">>, "Super")
      [] c0 = "v" -> check_keyword(sc, 1, 2, <<"a", "r">>, "Var")
      [] c0 = "w" -> check_keyword(sc, 1, 4, <<"h", "i", "l", "e">>, "While")
      [] c0 = "f" ->
            IF sc.current - sc.start > 1
            THEN CASE c1 = "a" ->
                        check_keyword(sc, 2, 3, <<"l", "s", "e">>, "False")
                   [] c1 = "o" -> check_keyword(sc, 2, 1, <<"r">>, "For")
                   [] c1 = "u" -> check_keyword(sc, 2, 1, <<"n">>, "Fun")
                   [] OTHER -> "Identifier"
            ELSE "Identifier"
      [] c0 = "t" ->
            IF sc.current - sc.start > 1
            THEN CASE c1 = "h" -> check_keyword(sc, 2, 2, <<"i", "s">>, "This")
                   [] c1 = "r" -> check_keyword(sc, 2, 2, <<"u", "e">>, "True")
                   [] OTHER -> "Identifier"
            ELSE "Identifier"
      [] OTHER -> "Identifier"

RECURSIVE identifier_loop(_)
identifier_loop(sc) ==
    IF is_alpha(scanner_peek(sc)) \/ is_digit(scanner_peek(sc))
    THEN identifier_loop(scanner_advance(sc))
    ELSE sc

\* every scanning method returns [sc |-> the scanner after, tok |-> token]
identifier(sc) ==
    LET Token(s1, token_type) ==
            IF token_type = NoToken
            THEN [sc |-> [s1 EXCEPT !.panicked = TRUE],
                  tok |-> make_token(s1, NoToken)]
            ELSE [sc |-> s1, tok |-> make_token(s1, token_type)]
        Typed(s1) == Token(s1, identifier_type(s1))
    IN Typed(identifier_loop(sc))

RECURSIVE digits_loop(_)
digits_loop(sc) ==
    IF is_digit(scanner_peek(sc)) THEN digits_loop(scanner_advance(sc)) ELSE sc

\* Scanner::number taking a `.` into the number whatever follows it
scanner_number_AnyDot(sc) ==
    LET Token(s3) == [sc |-> s3, tok |-> make_token(s3, "Number")]
        Fraction(s1) ==
            Token(digits_loop(
                IF scanner_peek(s1) = "."
                THEN scanner_advance(s1) ELSE s1))
    IN Fraction(digits_loop(sc))

scanner_number(sc) ==
    LET Token(s3) == [sc |-> s3, tok |-> make_token(s3, "Number")]
        Fraction(s1) ==
            Token(digits_loop(
                IF scanner_peek(s1) = "." /\ is_digit(peek_next(s1))
                THEN scanner_advance(s1) ELSE s1))
    IN Fraction(digits_loop(sc))

\* the loop of Scanner::string without the count of the lines
RECURSIVE string_loop_NoLine(_)
string_loop_NoLine(sc) ==
    IF scanner_peek(sc) # "\"" /\ ~is_at_end(sc)
    THEN string_loop_NoLine(scanner_advance(sc))
    ELSE sc

RECURSIVE string_loop(_)
string_loop(sc) ==
    IF scanner_peek(sc) # "\"" /\ ~is_at_end(sc)
    THEN string_loop(scanner_advance(
            IF scanner_peek(sc) = "\n" THEN [sc EXCEPT !.line = @ + 1]
            ELSE sc))
    ELSE sc

scanner_string(sc) ==
    LET Closed(s2) == [sc |-> s2, tok |-> make_token(s2, "String")]
        Token(s1) ==
            IF is_at_end(s1)
            THEN [sc |-> s1, tok |-> error_token(s1, "Unterminated string.")]
            ELSE Closed(scanner_advance(s1))
    IN Token(string_loop(sc))

\* the two-character operators: tt2 if the next character is '='
TwoChar(sc, tt2, tt1) ==
    LET Token(s1) ==
            [sc |-> s1,
             tok |-> make_token(s1,
                        IF s1.panicked THEN NoToken
                        ELSE IF s1.current # sc.current THEN tt2 ELSE tt1)]
    IN Token(match_char(sc, "="))

SingleChar ==
    [c \in {"(", ")", "{", "}", ",", ".", "-", "+", ";", "*", "/"} |->
        CASE c = "(" -> "LeftParen" [] c = ")" -> "RightParen"
          [] c = "{" -> "LeftBrace" [] c = "}" -> "RightBrace"
          [] c = "," -> "Comma" [] c = "." -> "Dot"
          [] c = "-" -> "Minus" [] c = "+" -> "Plus"
          [] c = ";" -> "Semicolon" [] c = "*" -> "Star"
          [] c = "/" -> "Slash"]

scan_token(sc0) ==
    LET Dispatch(c, s3) ==
          CASE is_alpha(c) -> identifier(s3)
            [] is_digit(c) -> scanner_number(s3)
            [] c \in DOMAIN SingleChar ->
                  [sc |-> s3, tok |-> make_token(s3, SingleChar[c])]
            [] c = "!" -> TwoChar(s3, "BangEqual", "Bang")
            [] c = "=" -> TwoChar(s3, "EqualEqual", "Equal")
            [] c = "<" -> TwoChar(s3, "LessEqual", "Less")
            [] c = ">" -> TwoChar(s3, "GreaterEqual", "Greater")
            [] c = "\"" -> scanner_string(s3)
            [] OTHER ->
                  [sc |-> s3, tok |-> error_token(s3, "Unexpected character.")]
        Scan(s2) ==
          IF is_at_end(s2) THEN [sc |-> s2, tok |-> make_token(s2, "Eof")]
          ELSE Dispatch(scanner_advance_char(s2), scanner_advance(s2))
        Start(s1) == Scan([s1 EXCEPT !.start = s1.current])
    IN Start(skip_whitespace(sc0))

\* the results of the calls of scan_token from sc on, up to the Eof token:
\* scan_token is a function of the scanner alone, so these are the tokens
\* the compiler's calls will get
RECURSIVE ScanAll(_)
ScanAll(sc) ==
    LET Rest(r) ==
            IF r.tok.token_type = "Eof" \/ r.sc.panicked THEN <<r>>
            ELSE <<r>> \o ScanAll(r.sc)
    IN Rest(scan_token(sc))

(***************************************************************************)
(* chunk.rs: Chunk                                                         *)
(***************************************************************************)
init_chunk == [code |-> <<>>, constants |-> <<>>, lines |-> <<>>]

write_chunk(chunk, byte, line) ==
    [chunk EXCEPT !.code = Append(@, byte), !.lines = Append(@, line)]

\* add_constant: the chunk after the call; the index returned is the
\* position of the appended value, Len(constants) - 1 of the new pool
add_constant(chunk, value) ==
    [chunk EXCEPT !.constants = Append(@, value)]

(***************************************************************************)
(* compiler.rs: Precedence, RULES                                          *)
(***************************************************************************)
PREC_NONE == 0
PREC_ASSIGNMENT == 1
PREC_OR == 2
PREC_AND == 3
PREC_EQUALITY == 4
PREC_COMPARISON == 5
PREC_TERM == 6
PREC_FACTOR == 7
PREC_UNARY == 8
PREC_CALL == 9
PREC_PRIMARY == 10

\* Precedence::next
next(precedence) ==
    IF precedence = PREC_PRIMARY THEN PREC_PRIMARY ELSE precedence + 1

TokenTypes ==
    {"LeftParen", "RightParen", "LeftBrace", "RightBrace", "Comma", "Dot",
     "Minus", "Plus", "Semicolon", "Slash", "Star", "Bang", "BangEqual",
     "Equal", "EqualEqual", "Greater", "GreaterEqual", "Less", "LessEqual",
     "Identifier", "String", "Number", "And", "Class", "Else", "False",
     "For", "Fun", "If", "Nil", "Or", "Print", "Return", "Super", "This",
     "True", "Var", "While", "Error", "Eof"}

ParseRule(prefix, infix, precedence) ==
    [prefix |-> prefix, infix |-> infix, precedence |-> precedence]

\* the table is indexed by the position of the token kind in TokenType;
\* entry 22 (And) has and_ with precedence None, entry 30 (Or) is empty
\* and entry 31 (Print) holds or_
RULES ==
    [tt \in TokenTypes |->
        CASE tt = "LeftParen" -> ParseRule("grouping", "none", PREC_NONE)
          [] tt = "Minus" -> ParseRule("unary", "binary", PREC_TERM)
          [] tt = "Plus" -> ParseRule("none", "binary", PREC_TERM)
          [] tt = "Slash" -> ParseRule("none", "binary", PREC_FACTOR)
          [] tt = "Star" -> ParseRule("none", "binary", PREC_FACTOR)
          [] tt = "Bang" -> ParseRule("unary", "none", PREC_NONE)
          [] tt = "BangEqual" -> ParseRule("none", "binary", PREC_EQUALITY)
          [] tt = "EqualEqual" -> ParseRule("none", "binary", PREC_EQUALITY)
          [] tt = "Greater" -> ParseRule("none", "binary", PREC_COMPARISON)
          [] tt = "GreaterEqual" ->
                ParseRule("none", "binary", PREC_COMPARISON)
          [] tt = "Less" -> ParseRule("none", "binary", PREC_COMPARISON)
          [] tt = "LessEqual" -> ParseRule("none", "binary", PREC_COMPARISON)
          [] tt = "Identifier" -> ParseRule("variable", "none", PREC_NONE)
          [] tt = "String" -> ParseRule("string", "none", PREC_NONE)
          [] tt = "Number" -> ParseRule("number", "none", PREC_NONE)
          [] tt = "And" -> ParseRule("none", "and_", PREC_NONE)
          [] tt = "False" -> ParseRule("literal", "none", PREC_NONE)
          [] tt = "Nil" -> ParseRule("literal", "none", PREC_NONE)
          [] tt = "Or" -> ParseRule("none", "none", PREC_NONE)
          [] tt = "Print" -> ParseRule("none", "or_", PREC_NONE)
          [] tt = "True" -> ParseRule("literal", "none", PREC_NONE)
          [] OTHER -> ParseRule("none", "none", PREC_NONE)]

get_rule(token_type) == RULES[token_type]

(***************************************************************************)
(* compiler.rs: Parser, Compiler                                           *)
(***************************************************************************)
Parser_new ==
    [current |-> [token_type |-> "Eof", start |-> 0, length |-> 0,
                  line |-> 0, error_msg |-> <<>>],
     previous |-> [token_type |-> "Eof", start |-> 0, length |-> 0,
                   line |-> 0, error_msg |-> <<>>],
     had_error |-> FALSE,
     panic_mode |-> FALSE]

\* diag is the sequence of messages error_at has printed; panicked
\* records that a Rust panic has ended the compilation; pending holds the
\* results of the calls of scanner.scan_token that are still to come
Compiler_new(source) ==
    [scanner |-> init_scanner(source),
     pending |-> ScanAll(init_scanner(source)),
     parser |-> Parser_new,
     compiling_chunk |-> init_chunk,
     locals |-> <<>>,
     local_count |-> 0,
     scope_depth |-> 0,
     diag |-> <<>>,
     panicked |-> FALSE]

\* error_at reporting the error without recording it in had_error
error_at_NoHadError(c, token, message) ==
    IF c.parser.panic_mode THEN c
    ELSE [c EXCEPT !.parser.panic_mode = TRUE,
                   !.diag = Append(@, message)]

error_at(c, token, message) ==
    IF c.parser.panic_mode THEN c
    ELSE [c EXCEPT !.parser.panic_mode = TRUE,
                   !.parser.had_error = TRUE,
                   !.diag = Append(@, message)]

error_at_current(c, message) == error_at(c, c.parser.current, message)

error(c, message) == error_at(c, c.parser.previous, message)

RECURSIVE advance_loop(_)
advance_loop(c) ==
    LET Scanned(c1) ==
            IF c1.scanner.panicked
            THEN [c1 EXCEPT !.panicked = TRUE,
                            !.parser.current.token_type = "Eof"]
            ELSE IF c1.parser.current.token_type # "Error" THEN c1
            ELSE advance_loop(
                    error_at_current(c1, c1.parser.current.error_msg[1]))
    IN Scanned([c EXCEPT !.scanner = Head(c.pending).sc,
                         !.parser.current = Head(c.pending).tok,
                         !.pending = IF Len(@) > 1 THEN Tail(@) ELSE @])

advance(c) ==
    advance_loop([c EXCEPT !.parser.previous = c.parser.current])

check(c, token_type) == c.parser.current.token_type = token_type

\* match_token: the compiler after the call; it returns check(c, token_type)
match_token(c, token_type) ==
    IF ~check(c, token_type) THEN c ELSE advance(c)

consume(c, token_type, message) ==
    IF c.parser.current.token_type = token_type THEN advance(c)
    ELSE error_at_current(c, message)

emit_byte(c, byte) ==
    [c EXCEPT !.compiling_chunk =
        write_chunk(@, byte, c.parser.previous.line)]

emit_bytes(c, byte1, byte2) == emit_byte(emit_byte(c, byte1), byte2)

emit_return(c) == emit_byte(c, OP_RETURN)

\* make_constant without the test of the index against u8::MAX
make_constant_NoLimit(c, value) ==
    [c |-> [c EXCEPT !.compiling_chunk = add_constant(@, value)],
     index |-> Len(c.compiling_chunk.constants) % 256]

\* make_constant and the methods built on it return
\* [c |-> the compiler after, index |-> the u8 returned]
make_constant(c, value) ==
    LET Added(c1, constant) ==
            IF constant > U8_MAX
            THEN [c |-> error(c1, "Too many constants in one chunk."),
                  index |-> 0]
            ELSE [c |-> c1, index |-> constant]
    IN Added([c EXCEPT !.compiling_chunk = add_constant(@, value)],
             Len(c.compiling_chunk.constants))

emit_constant(c, value) ==
    LET Emit(r) == emit_bytes(r.c, OP_CONSTANT, r.index)
    IN Emit(make_constant(c, value))

Lexeme(c, token) ==
    Slice(c.scanner, token.start, token.start + token.length)

\* the slice of Lexeme panics
LexemePanics(c, token) ==
    SlicePanics(c.scanner, token.start, token.start + token.length)

identifier_constant(c, name) ==
    IF LexemePanics(c, name)
    THEN [c |-> [c EXCEPT !.panicked = TRUE], index |-> 0]
    ELSE make_constant(c, ObjString(Lexeme(c, name)))

identifiers_equal(c, a, b) ==
    a.length = b.length /\ Lexeme(c, a) = Lexeme(c, b)

\* identifiers_equal slices the source for both tokens
identifiers_equal_panics(c, a, b) == LexemePanics(c, a) \/ LexemePanics(c, b)

add_local(c, name) ==
    IF c.local_count = STACK_MAX
    THEN error(c, "Too many local variables in function.")
    ELSE LET local == [name |-> name, depth |-> -1]
         IN [c EXCEPT
                !.locals = IF c.local_count >= Len(c.locals)
                           THEN Append(@, local)
                           ELSE [@ EXCEPT ![c.local_count + 1] = local],
                !.local_count = @ + 1]

\* the indices that the loop of declare_variable visits from index i down
\* before it breaks at a local of an outer scope
scope_indices(c, i) ==
    LET outer == {j \in 0..i : /\ c.locals[j + 1].depth # -1
                               /\ c.locals[j + 1].depth < c.scope_depth}
    IN IF outer = {} THEN 0..i
       ELSE ((CHOOSE j \in outer : \A k \in outer : k <= j) + 1)..i

\* the loop of declare_variable from index i down: TRUE iff it reaches a
\* local with an equal name before it breaks at an outer scope
declared_in_scope(c, name, i) ==
    \E j \in scope_indices(c, i) :
        identifiers_equal(c, name, c.locals[j + 1].name)

\* the loop of declare_variable from index i down: TRUE iff a call of
\* identifiers_equal panics before the loop ends
declared_in_scope_panics(c, name, i) ==
    \E j \in scope_indices(c, i) :
        /\ identifiers_equal_panics(c, name, c.locals[j + 1].name)
        /\ \A k \in (j + 1)..i :
              /\ ~identifiers_equal_panics(c, name, c.locals[k + 1].name)
              /\ ~identifiers_equal(c, name, c.locals[k + 1].name)

\* declare_variable without the search for the name in the current scope
declare_variable_NoSearch(c) ==
    IF c.scope_depth = 0 THEN c ELSE add_local(c, c.parser.previous)

declare_variable(c) ==
    IF c.scope_depth = 0 THEN c
    ELSE IF declared_in_scope_panics(c, c.parser.previous, c.local_count - 1)
    THEN [c EXCEPT !.panicked = TRUE]
    ELSE IF declared_in_scope(c, c.parser.previous, c.local_count - 1)
    THEN error(c, "Variable with this name already declared in this scope.")
    ELSE add_local(c, c.parser.previous)

parse_variable(c, error_msg) ==
    LET Declared(c1) ==
            IF c1.scope_depth > 0 THEN [c |-> c1, index |-> 0]
            ELSE identifier_constant(c1, c1.parser.previous)
    IN Declared(declare_variable(consume(c, "Identifier", error_msg)))

mark_initialized(c) ==
    IF c.scope_depth = 0 THEN c
    ELSE IF c.local_count = 0 THEN [c EXCEPT !.panicked = TRUE]
    ELSE [c EXCEPT !.locals[c.local_count].depth = c.scope_depth]

define_variable(c, global) ==
    IF c.scope_depth > 0 THEN mark_initialized(c)
    ELSE emit_bytes(c, OP_DEFINE_GLOBAL, global)

SyncTokens ==
    {"Class", "Fun", "Var", "For", "If", "While", "Print", "Return"}

RECURSIVE synchronize_loop(_)
synchronize_loop(c) ==
    IF c.parser.current.token_type = "Eof" THEN c
    ELSE IF c.parser.previous.token_type = "Semicolon" THEN c
    ELSE IF c.parser.current.token_type \in SyncTokens THEN c
    ELSE synchronize_loop(advance(c))

synchronize(c) == synchronize_loop([c EXCEPT !.parser.panic_mode = FALSE])

begin_scope(c) == [c EXCEPT !.scope_depth = @ + 1]

\* the number of turns of the loop of end_scope: it stops at the first
\* local from the top whose depth is not greater than scope_depth
end_scope_turns(c) ==
    LET stop == {i \in 0..c.local_count :
                    i = 0 \/ c.locals[i].depth <= c.scope_depth}
    IN c.local_count - (CHOOSE i \in stop : \A k \in stop : k <= i)

\* n turns of the loop of end_scope, the second half after the first
RECURSIVE end_scope_body(_, _)
end_scope_body(c, n) ==
    IF n = 0 THEN c
    ELSE IF n = 1 THEN [emit_byte(c, OP_POP) EXCEPT !.local_count = @ - 1]
    ELSE LET half == end_scope_body(c, n \div 2)
         IN IF half.panicked THEN half
            ELSE end_scope_body(half, n - (n \div 2))

\* the loop of end_scope discarding the locals without emitting OP_POP
end_scope_loop_NoPop(c) ==
    [c EXCEPT !.local_count = @ - end_scope_turns(c)]

end_scope_loop(c) == end_scope_body(c, end_scope_turns(c))

end_scope(c) == end_scope_loop([c EXCEPT !.scope_depth = @ - 1])

\* the loop of resolve_local running from index 0 up to i instead
resolve_index_Forward(c, name, i) ==
    LET equal == {j \in 0..i : identifiers_equal(c, name, c.locals[j + 1].name)}
    IN IF equal = {} THEN -1
       ELSE CHOOSE j \in equal : \A k \in equal : j <= k

\* the loop of resolve_local from index i down: the index of the first
\* local with an equal name, -1 if there is none
RECURSIVE resolve_index(_, _, _)
resolve_index(c, name, i) ==
    IF i < 0 THEN -1
    ELSE IF identifiers_equal(c, name, c.locals[i + 1].name) THEN i
    ELSE resolve_index(c, name, i - 1)

\* the loop of resolve_local from index i down: TRUE iff a call of
\* identifiers_equal panics before the loop ends
RECURSIVE resolve_index_panics(_, _, _)
resolve_index_panics(c, name, i) ==
    IF i < 0 THEN FALSE
    ELSE IF identifiers_equal_panics(c, name, c.locals[i + 1].name) THEN TRUE
    ELSE IF identifiers_equal(c, name, c.locals[i + 1].name) THEN FALSE
    ELSE resolve_index_panics(c, name, i - 1)

\* resolve_local without the test of the depth of the local it found
resolve_local_NoCheck(c, name) ==
    [c |-> c, index |-> resolve_index(c, name, c.local_count - 1)]

\* resolve_local returns [c |-> the compiler after, index |-> the i32]
resolve_local(c, name) ==
    LET Found(i) ==
            IF resolve_index_panics(c, name, c.local_count - 1)
            THEN [c |-> [c EXCEPT !.panicked = TRUE], index |-> -1]
            ELSE IF i # -1 /\ c.locals[i + 1].depth = -1
            THEN [c |-> error(c,
                    "Cannot read local variable in its own initializer."),
                  index |-> i]
            ELSE [c |-> c, index |-> i]
    IN Found(resolve_index(c, name, c.local_count - 1))

emit_jump(c, instruction) ==
    emit_byte(emit_byte(emit_byte(c, instruction), 255), 255)

\* the offset emit_jump returns for the compiler it produced
JumpOffset(c) == Len(c.compiling_chunk.code) - 2

patch_jump(c, offset) ==
    LET jump == Len(c.compiling_chunk.code) - offset - 2 IN
    [c EXCEPT !.compiling_chunk.code[offset + 1] = (jump \div 256) % 256,
              !.compiling_chunk.code[offset + 2] = jump % 256]

\* emit_loop without the test of the offset against u16::MAX
emit_loop_NoCheck(c, loop_start) ==
    LET Operand(c1, offset) ==
            emit_byte(emit_byte(c1, (offset \div 256) % 256), offset % 256)
    IN Operand(emit_byte(c, OP_LOOP),
               Len(c.compiling_chunk.code) + 1 - loop_start + 2)

emit_loop(c, loop_start) ==
    LET Operand(c1, offset) ==
            emit_byte(
                emit_byte(IF offset > U16_MAX
                          THEN error(c1, "Loop body too large.")
                          ELSE c1,
                          (offset \div 256) % 256),
                offset % 256)
    IN Operand(emit_byte(c, OP_LOOP),
               Len(c.compiling_chunk.code) + 1 - loop_start + 2)

(***************************************************************************)
(* compiler.rs: the Pratt parser                                           *)
(***************************************************************************)
RECURSIVE parse_precedence(_, _)
RECURSIVE statement(_)
RECURSIVE declaration(_)

expression(c) == parse_precedence(c, PREC_ASSIGNMENT)

BinaryOps ==
    [tt \in {"Plus", "Minus", "Star", "Slash", "BangEqual", "EqualEqual",
             "Greater", "GreaterEqual", "Less", "LessEqual"} |->
        CASE tt = "Plus" -> <<OP_ADD>>
          [] tt = "Minus" -> <<OP_SUBTRACT>>
          [] tt = "Star" -> <<OP_MULTIPLY>>
          [] tt = "Slash" -> <<OP_DIVIDE>>
          [] tt = "BangEqual" -> <<OP_EQUAL, OP_NOT>>
          [] tt = "EqualEqual" -> <<OP_EQUAL>>
          [] tt = "Greater" -> <<OP_GREATER>>
          [] tt = "GreaterEqual" -> <<OP_LESS, OP_NOT>>
          [] tt = "Less" -> <<OP_LESS>>
          [] tt = "LessEqual" -> <<OP_GREATER, OP_NOT>>]

RECURSIVE EmitAll(_, _)
EmitAll(c, bytes) ==
    IF bytes = <<>> THEN c ELSE EmitAll(emit_byte(c, Head(bytes)), Tail(bytes))

\* binary parsing its right operand at the operator's own precedence
binary_SamePrecedence(c, can_assign) ==
    LET operator_type == c.parser.previous.token_type
        Emit(c1) ==
            IF operator_type \in DOMAIN BinaryOps
            THEN EmitAll(c1, BinaryOps[operator_type])
            ELSE c1
    IN Emit(parse_precedence(c, get_rule(operator_type).precedence))

binary(c, can_assign) ==
    LET operator_type == c.parser.previous.token_type
        Emit(c1) ==
            IF operator_type \in DOMAIN BinaryOps
            THEN EmitAll(c1, BinaryOps[operator_type])
            ELSE c1
    IN Emit(parse_precedence(c, next(get_rule(operator_type).precedence)))

literal(c, can_assign) ==
    LET tt == c.parser.previous.token_type IN
    CASE tt = "False" -> emit_byte(c, OP_FALSE)
      [] tt = "Nil" -> emit_byte(c, OP_NIL)
      [] tt = "True" -> emit_byte(c, OP_TRUE)
      [] OTHER -> c

grouping(c, can_assign) ==
    consume(expression(c), "RightParen", "Expect ')' after expression.")

\* number_str.parse::<f64>() of a lexeme digits [ '.' digits ]: num is the
\* value of the digits read, den is 10^(number of digits after the '.')
RECURSIVE ParseDigits(_, _, _, _)
ParseDigits(chars, num, den, frac) ==
    IF chars = <<>> THEN Number(num, den)
    ELSE IF Head(chars) = "." THEN ParseDigits(Tail(chars), num, den, TRUE)
    ELSE ParseDigits(Tail(chars), num * 10 + DigitVal[Head(chars)],
                     IF frac THEN den * 10 ELSE den, frac)

\* str::parse::<f64> accepts the text: of the texts it accepts, those made
\* of a sign, digits and one '.', which are the ones slices of the sources
\* of the model can give
IsF64(chars) ==
    LET body == IF chars # <<>> /\ Head(chars) \in {"+", "-"}
                THEN Tail(chars) ELSE chars
        dots == {i \in 1..Len(body) : body[i] = "."}
    IN /\ \A i \in 1..Len(body) : body[i] = "." \/ is_digit(body[i])
       /\ Cardinality(dots) <= 1
       /\ \E i \in 1..Len(body) : is_digit(body[i])

ParseF64(chars) ==
    IF Head(chars) = "-" THEN NumNeg(ParseDigits(Tail(chars), 0, 1, FALSE))
    ELSE IF Head(chars) = "+" THEN ParseDigits(Tail(chars), 0, 1, FALSE)
    ELSE ParseDigits(chars, 0, 1, FALSE)

number(c, can_assign) ==
    IF LexemePanics(c, c.parser.previous)
       \/ ~IsF64(Lexeme(c, c.parser.previous))
    THEN [c EXCEPT !.panicked = TRUE]
    ELSE emit_constant(c, ParseF64(Lexeme(c, c.parser.previous)))

string(c, can_assign) ==
    LET string_start == c.parser.previous.start + 1
        string_length == c.parser.previous.length - 2
    IN IF SlicePanics(c.scanner, string_start, string_start + string_length)
       THEN [c EXCEPT !.panicked = TRUE]
       ELSE emit_constant(c,
                ObjString(Slice(c.scanner, string_start,
                                string_start + string_length)))

unary(c, can_assign) ==
    LET operator_type == c.parser.previous.token_type
        Emit(c1) ==
            CASE operator_type = "Bang" -> emit_byte(c1, OP_NOT)
              [] operator_type = "Minus" -> emit_byte(c1, OP_NEGATE)
              [] OTHER -> c1
    IN Emit(parse_precedence(c, PREC_UNARY))

\* named_variable taking a following `=` as an assignment wherever the
\* name stands
named_variable_AlwaysAssign(c, name, can_assign) ==
    LET Emit(g, get_op, set_op) ==
            IF check(g.c, "Equal")
            THEN emit_bytes(expression(advance(g.c)), set_op, g.index)
            ELSE emit_bytes(g.c, get_op, g.index)
        Resolved(r) ==
            Emit(IF r.index # -1 THEN [c |-> r.c, index |-> r.index % 256]
                 ELSE identifier_constant(r.c, name),
                 IF r.index # -1 THEN OP_GET_LOCAL ELSE OP_GET_GLOBAL,
                 IF r.index # -1 THEN OP_SET_LOCAL ELSE OP_SET_GLOBAL)
    IN Resolved(resolve_local(c, name))

named_variable(c, name, can_assign) ==
    LET Emit(g, get_op, set_op) ==
            IF can_assign /\ check(g.c, "Equal")
            THEN emit_bytes(expression(advance(g.c)), set_op, g.index)
            ELSE emit_bytes(g.c, get_op, g.index)
        Resolved(r) ==
            Emit(IF r.index # -1 THEN [c |-> r.c, index |-> r.index % 256]
                 ELSE identifier_constant(r.c, name),
                 IF r.index # -1 THEN OP_GET_LOCAL ELSE OP_GET_GLOBAL,
                 IF r.index # -1 THEN OP_SET_LOCAL ELSE OP_SET_GLOBAL)
    IN Resolved(resolve_local(c, name))

variable(c, can_assign) == named_variable(c, c.parser.previous, can_assign)

and_(c, can_assign) ==
    LET Right(c1) ==
            patch_jump(parse_precedence(emit_byte(c1, OP_POP), PREC_AND),
                       JumpOffset(c1))
    IN Right(emit_jump(c, OP_JUMP_IF_FALSE))

or_(c, can_assign) ==
    LET Right(c2, else_jump) ==
            patch_jump(
                parse_precedence(
                    emit_byte(patch_jump(c2, else_jump), OP_POP), PREC_OR),
                JumpOffset(c2))
        Jump(c1) == Right(emit_jump(c1, OP_JUMP), JumpOffset(c1))
    IN Jump(emit_jump(c, OP_JUMP_IF_FALSE))

\* the call through a function pointer of the rule table; calling the
\* empty entry is the panic of Option::unwrap
CallRule(handler, c, can_assign) ==
    CASE handler = "grouping" -> grouping(c, can_assign)
      [] handler = "unary" -> unary(c, can_assign)
      [] handler = "binary" -> binary(c, can_assign)
      [] handler = "variable" -> variable(c, can_assign)
      [] handler = "string" -> string(c, can_assign)
      [] handler = "number" -> number(c, can_assign)
      [] handler = "literal" -> literal(c, can_assign)
      [] handler = "and_" -> and_(c, can_assign)
      [] handler = "or_" -> or_(c, can_assign)
      [] OTHER -> [c EXCEPT !.panicked = TRUE]

RECURSIVE infix_loop(_, _, _)
infix_loop(c, precedence, can_assign) ==
    LET Infix(c1) ==
            infix_loop(
                CallRule(get_rule(c1.parser.previous.token_type).infix,
                         c1, can_assign),
                precedence, can_assign)
    IN IF c.panicked THEN c
       ELSE IF precedence <= get_rule(c.parser.current.token_type).precedence
       THEN Infix(advance(c))
       ELSE c

parse_precedence(c, precedence) ==
    LET can_assign == precedence <= PREC_ASSIGNMENT
        Target(c3) ==
            IF can_assign /\ check(c3, "Equal")
            THEN error(advance(c3), "Invalid assignment target.")
            ELSE c3
        Prefix(c1, prefix_rule) ==
            IF prefix_rule = "none" THEN error(c1, "Expect expression.")
            ELSE Target(infix_loop(CallRule(prefix_rule, c1, can_assign),
                                   precedence, can_assign))
        Advanced(c1) ==
            Prefix(c1, get_rule(c1.parser.previous.token_type).prefix)
    IN Advanced(advance(c))

(***************************************************************************)
(* compiler.rs: declarations and statements                                *)
(***************************************************************************)
expression_statement(c) ==
    emit_byte(consume(expression(c), "Semicolon",
                      "Expect ';' after expression."), OP_POP)

print_statement(c) ==
    emit_byte(consume(expression(c), "Semicolon",
                      "Expect ';' after value."), OP_PRINT)

var_declaration(c) ==
    LET Define(r) ==
            define_variable(
                consume(IF check(r.c, "Equal") THEN expression(advance(r.c))
                        ELSE emit_byte(r.c, OP_NIL),
                        "Semicolon",
                        "Expect ';' after variable declaration."),
                r.index)
    IN Define(parse_variable(c, "Expect variable name."))

RECURSIVE block_loop(_)
block_loop(c) ==
    IF ~check(c, "RightBrace") /\ ~check(c, "Eof")
    THEN block_loop(declaration(c))
    ELSE c

block(c) == consume(block_loop(c), "RightBrace", "Expect '}' after block.")

if_statement(c) ==
    LET Else(c5, then_jump) ==
            LET Branch(c6) ==
                    IF check(c6, "Else") THEN statement(advance(c6)) ELSE c6
            IN patch_jump(Branch(emit_byte(patch_jump(c5, then_jump), OP_POP)),
                          JumpOffset(c5))
        Then(c3) ==
            Else(emit_jump(statement(emit_byte(c3, OP_POP)), OP_JUMP),
                 JumpOffset(c3))
    IN Then(emit_jump(
                consume(expression(
                            consume(c, "LeftParen", "Expect '(' after 'if'.")),
                        "RightParen", "Expect ')' after condition."),
                OP_JUMP_IF_FALSE))

while_statement(c) ==
    LET loop_start == Len(c.compiling_chunk.code)
        Body(c3) ==
            emit_byte(
                patch_jump(
                    emit_loop(statement(emit_byte(c3, OP_POP)), loop_start),
                    JumpOffset(c3)),
                OP_POP)
    IN Body(emit_jump(
                consume(expression(
                            consume(c, "LeftParen",
                                    "Expect '(' after 'while'.")),
                        "RightParen", "Expect ')' after condition."),
                OP_JUMP_IF_FALSE))

for_statement(c) ==
    LET \* r is [c, loop_start, exit_jump] after the clauses
        Body(r) ==
            LET Exit(c5) ==
                    IF r.exit_jump # 0
                    THEN emit_byte(patch_jump(c5, r.exit_jump), OP_POP)
                    ELSE c5
            IN end_scope(Exit(emit_loop(statement(r.c), r.loop_start)))
        \* the increment clause, i1 the compiler after the jump over it
        Increment(i1, loop_start) ==
            patch_jump(
                emit_loop(
                    consume(emit_byte(expression(i1), OP_POP), "RightParen",
                            "Expect ')' after for clauses."),
                    loop_start),
                JumpOffset(i1))
        Jumped(i1, r) ==
            [c |-> Increment(i1, r.loop_start),
             loop_start |-> Len(i1.compiling_chunk.code),
             exit_jump |-> r.exit_jump]
        Clause3(r) ==
            Body(IF check(r.c, "RightParen")
                 THEN [r EXCEPT !.c = advance(r.c)]
                 ELSE Jumped(emit_jump(r.c, OP_JUMP), r))
        \* the condition clause, cj the compiler after its exit jump
        Tested(cj, loop_start) ==
            [c |-> emit_byte(cj, OP_POP),
             loop_start |-> loop_start,
             exit_jump |-> JumpOffset(cj)]
        Clause2(c2) ==
            Clause3(IF check(c2, "Semicolon")
                    THEN [c |-> advance(c2),
                          loop_start |-> Len(c2.compiling_chunk.code),
                          exit_jump |-> 0]
                    ELSE Tested(
                            emit_jump(
                                consume(expression(c2), "Semicolon",
                                        "Expect ';' after for condition."),
                                OP_JUMP_IF_FALSE),
                            Len(c2.compiling_chunk.code)))
        \* the initializer clause
        Clause1(c1) ==
            Clause2(IF check(c1, "Semicolon") THEN advance(c1)
                    ELSE IF check(c1, "Var") THEN var_declaration(advance(c1))
                    ELSE expression_statement(c1))
    IN Clause1(consume(begin_scope(c), "LeftParen",
                       "Expect '(' after 'for'."))

statement(c) ==
    CASE check(c, "Print") -> print_statement(advance(c))
      [] check(c, "For") -> for_statement(advance(c))
      [] check(c, "If") -> if_statement(advance(c))
      [] check(c, "While") -> while_statement(advance(c))
      [] check(c, "LeftBrace") -> end_scope(block(begin_scope(advance(c))))
      [] OTHER -> expression_statement(c)

declaration(c) ==
    LET Sync(c1) == IF c1.parser.panic_mode THEN synchronize(c1) ELSE c1
    IN Sync(IF check(c, "Var") THEN var_declaration(advance(c))
            ELSE statement(c))

(***************************************************************************)
(* chunk.rs: the disassembler, which end_compiler runs on a chunk compiled *)
(* without error                                                           *)
(***************************************************************************)
\* disassemble_instruction: the next index, or -1 for the panic of an
\* Option::unwrap on a missing operand byte or constant
disassemble_instruction(chunk, index) ==
    LET instruction == chunk.code[index + 1] IN
    CASE instruction \in {OP_CONSTANT, OP_GET_GLOBAL, OP_SET_GLOBAL} ->
            IF index + 1 >= Len(chunk.code) THEN -1
            ELSE IF chunk.code[index + 2] >= Len(chunk.constants) THEN -1
            ELSE index + 2
      [] instruction \in {OP_GET_LOCAL, OP_SET_LOCAL} ->
            IF index + 1 >= Len(chunk.code) THEN -1 ELSE index + 2
      [] OTHER -> index + 1

\* the name disassemble_instruction prints for the instruction: the arm
\* written for OP_DIVIDE tests for OP_NEGATE again and is never taken
disassemble_name(instruction) ==
    CASE instruction = OP_RETURN -> "OP_RETURN"
      [] instruction = OP_NEGATE -> "OP_NEGATE"
      [] instruction = OP_ADD -> "OP_ADD"
      [] instruction = OP_SUBTRACT -> "OP_SUBTRACT"
      [] instruction = OP_MULTIPLY -> "OP_MULTIPLY"
      [] instruction = OP_NIL -> "OP_NIL"
      [] instruction = OP_TRUE -> "OP_TRUE"
      [] instruction = OP_FALSE -> "OP_FALSE"
      [] instruction = OP_NOT -> "OP_NOT"
      [] instruction = OP_CONSTANT -> "OP_CONSTANT"
      [] instruction = OP_EQUAL -> "OP_EQUAL"
      [] instruction = OP_GREATER -> "OP_GREATER"
      [] instruction = OP_LESS -> "OP_LESS"
      [] instruction = OP_PRINT -> "OP_PRINT"
      [] instruction = OP_POP -> "OP_POP"
      [] instruction = OP_DEFINE_GLOBAL -> "OP_DEFINE_GLOBAL"
      [] instruction = OP_GET_GLOBAL -> "OP_GET_GLOBAL"
      [] instruction = OP_SET_GLOBAL -> "OP_SET_GLOBAL"
      [] instruction = OP_GET_LOCAL -> "OP_GET_LOCAL"
      [] instruction = OP_SET_LOCAL -> "OP_SET_LOCAL"
      [] OTHER -> "unknown opcode"

\* n turns of the loop of disassemble_chunk from index i: the index they
\* end at, -1 when one of them panics; the turns are taken half by half to
\* keep the evaluation shallow
RECURSIVE disassemble_loop(_, _, _)
disassemble_loop(chunk, i, n) ==
    IF n = 0 \/ i = -1 \/ i >= Len(chunk.code) THEN i
    ELSE IF n = 1 THEN disassemble_instruction(chunk, i)
    ELSE LET j == disassemble_loop(chunk, i, n \div 2)
         IN IF j = -1 THEN -1
            ELSE disassemble_loop(chunk, j, n - (n \div 2))

\* the loop of disassemble_chunk from index i: TRUE iff it ends in a panic;
\* every turn moves on by one byte at least
disassemble_panics(chunk, i) ==
    disassemble_loop(chunk, i, Len(chunk.code)) = -1

disassemble_chunk(chunk) == disassemble_panics(chunk, 0)

end_compiler(c) ==
    LET Disassemble(c1) ==
            IF ~c1.parser.had_error /\ disassemble_chunk(c1.compiling_chunk)
            THEN [c1 EXCEPT !.panicked = TRUE]
            ELSE c1
    IN Disassemble(emit_return(c))

RECURSIVE compile_loop(_)
compile_loop(c) ==
    IF check(c, "Eof") THEN advance(c) ELSE compile_loop(declaration(c))

\* compile: the compiler after the call; it returns ~parser.had_error
compile(source, chunk) ==
    LET c0 == [Compiler_new(source) EXCEPT !.compiling_chunk = chunk]
    IN end_compiler(compile_loop(advance(c0)))

(***************************************************************************)
(* table.rs: Table, a map from string content to Value                     *)
(***************************************************************************)
init_table == [k \in {} |-> Nil]

table_set(table, key, value) ==
    [k \in (DOMAIN table) \cup {key} |-> IF k = key THEN value ELSE table[k]]

\* table_get returns Some(table[key]) iff table_has(table, key)
table_has(table, key) == key \in DOMAIN table

(***************************************************************************)
(* value.rs: print_value.  Text written to stdout is a sequence of         *)
(* strings; a number n/d is rendered by its decimal numerator, followed    *)
(* by "/" and the denominator when it is not an integer.                   *)
(***************************************************************************)
DigitChar == <<"0", "1", "2", "3", "4", "5", "6", "7", "8", "9">>

RECURSIVE NatText(_)
NatText(k) ==
    IF k < 10 THEN <<DigitChar[k + 1]>>
    ELSE Append(NatText(k \div 10), DigitChar[(k % 10) + 1])

NumText(v) ==
    IF v.d = 0
    THEN (IF v.n = 0 THEN <<"NaN">> ELSE IF v.n > 0 THEN <<"inf">>
          ELSE <<"-inf">>)
    ELSE (IF v.n < 0 THEN <<"-">> ELSE <<>>) \o NatText(Abs(v.n))
         \o (IF v.d = 1 THEN <<>> ELSE <<"/">> \o NatText(v.d))

print_value(v) ==
    CASE v.t = "bool" -> (IF v.b THEN <<"true">> ELSE <<"false">>)
      [] v.t = "nil" -> <<"nil">>
      [] v.t = "num" -> NumText(v)
      [] v.t = "str" -> v.s \o <<"\n">>

(***************************************************************************)
(* vm.rs: VM                                                               *)
(***************************************************************************)
VARIABLES
    chunk,      \* VM.chunk
    ip,         \* VM.ip, a u8
    stack,      \* VM.stack
    strings,    \* VM.strings, the intern table
    globals,    \* VM.globals
    pc,         \* "idle": no call of interpret is active; "run": inside
                \* VM::run; "panicked": a Rust panic has ended the process
    result,     \* the InterpretResult the last finished interpret returned
    source,     \* the argument of the current or last interpret
    diag,       \* the diagnostics its compilation printed
    output,     \* what VM::run has written to stdout during that call
    calls,      \* the number of interpret calls so far
    build,      \* "debug": integer overflow panics; "release": it wraps
    prog,       \* the program a stand-alone Compiler compiles
    comp,       \* that Compiler
    cpc,        \* its position in Compiler::compile
    frames,     \* the calls of if_statement and while_statement it has
                \* made, each with its local variables and its position
    scanner,    \* a stand-alone Scanner
    token       \* the Token its last call of scan_token returned

vars ==
    <<chunk, ip, stack, strings, globals, pc, result, source, diag, output,
      calls, build, prog, comp, cpc, frames, scanner, token>>

\* the variables of the virtual machine and of one call of interpret
vmAll ==
    <<chunk, ip, stack, strings, globals, pc, result, source, diag, output,
      calls, build>>

\* the variables of the stand-alone Compiler
compVars == <<prog, comp, cpc, frames>>

\* the variables of the stand-alone Scanner
scanVars == <<scanner, token>>

vmVars == <<chunk, ip, stack, strings, globals>>

\* Vec::pop / indexing on a stack of sufficient depth
push(stk, value) == Append(stk, value)
pop(stk) == SubSeq(stk, 1, Len(stk) - 1)
peek(stk, distance) == stk[Len(stk) - distance]

Panic ==
    /\ pc' = "panicked"
    /\ UNCHANGED <<chunk, ip, stack, strings, globals, result, source, diag,
                   output, calls, build>>

\* interpret returns r
Return(r) ==
    /\ pc' = "idle"
    /\ result' = r

\* self.ip += 1 on the u8: in a debug build the overflow panics
IpOverflow(i) == i = U8_MAX /\ build = "debug"
Inc(i) == (i + 1) % 256

Fetch(ops) ==
    /\ pc = "run"
    /\ ip < Len(chunk.code)
    /\ chunk.code[ip + 1] \in ops

init_vm ==
    /\ chunk = init_chunk
    /\ ip = 0
    /\ stack = <<>>
    /\ strings = init_table
    /\ globals = init_table

\* interpret starting from a fresh VM: the globals of earlier calls are lost
InterpretKeeps_ResetsGlobals ==
    /\ globals' = init_table
    /\ UNCHANGED <<stack, strings, build>>

\* what interpret leaves as it finds it
InterpretKeeps == UNCHANGED <<stack, strings, globals, build>>

\* VM::interpret up to the call of run
Interpret(src) ==
    LET Compiled(c) ==
            /\ diag' = c.diag
            /\ IF c.panicked
               THEN /\ pc' = "panicked"
                    /\ chunk' = init_chunk
                    /\ UNCHANGED <<ip, result>>
               ELSE IF c.parser.had_error
               THEN /\ Return("InterpretCompileError")
                    /\ chunk' = init_chunk
                    /\ UNCHANGED ip
               ELSE /\ pc' = "run"
                    /\ chunk' = c.compiling_chunk
                    /\ ip' = 0
                    /\ UNCHANGED result
    IN /\ pc = "idle"
       /\ calls' = calls + 1
       /\ source' = src
       /\ output' = <<>>
       /\ InterpretKeeps
       /\ Compiled(compile(src, init_chunk))

\* the loop of run ends: ip is past the code, or OP_RETURN
Run_Return ==
    /\ UNCHANGED <<compVars, scanVars>>
    /\ pc = "run"
    /\ UNCHANGED <<chunk, strings, globals, source, diag, calls, build>>
    /\ IF ip >= Len(chunk.code)
       THEN /\ Return("InterpretOk")
            /\ UNCHANGED <<ip, stack, output>>
       ELSE /\ chunk.code[ip + 1] = OP_RETURN
            /\ IF IpOverflow(ip)
               THEN /\ pc' = "panicked"
                    /\ UNCHANGED <<ip, stack, output, result>>
               ELSE /\ ip' = Inc(ip)
                    /\ Return("InterpretOk")
                    /\ IF stack # <<>>
                       THEN /\ stack' = pop(stack)
                            /\ output' = output
                                  \o print_value(peek(stack, 0)) \o <<"\n">>
                       ELSE UNCHANGED <<stack, output>>

Run_Constant ==
    /\ UNCHANGED <<compVars, scanVars>>
    /\ Fetch({OP_CONSTANT})
    /\ LET ip1 == Inc(ip) IN
       IF \/ IpOverflow(ip)
          \/ ip1 >= Len(chunk.code)
          \/ IpOverflow(ip1)
          \/ chunk.code[ip1 + 1] >= Len(chunk.constants)
       THEN Panic
       ELSE LET constant == chunk.constants[chunk.code[ip1 + 1] + 1] IN
            /\ ip' = Inc(ip1)
            /\ stack' = push(stack, constant)
            /\ output' = output \o <<"constant: ">> \o print_value(constant)
                            \o <<"\n">>
            /\ UNCHANGED <<chunk, strings, globals, pc, result, source, diag,
                           calls, build>>

Run_Literal ==
    /\ UNCHANGED <<compVars, scanVars>>
    /\ Fetch({OP_NIL, OP_TRUE, OP_FALSE})
    /\ IF IpOverflow(ip) THEN Panic
       ELSE /\ ip' = Inc(ip)
            /\ stack' = push(stack,
                    CASE chunk.code[ip + 1] = OP_NIL -> Nil
                      [] chunk.code[ip + 1] = OP_TRUE -> Boolean(TRUE)
                      [] chunk.code[ip + 1] = OP_FALSE -> Boolean(FALSE))
            /\ UNCHANGED <<chunk, strings, globals, pc, result, source, diag,
                           output, calls, build>>

Run_Not ==
    /\ UNCHANGED <<compVars, scanVars>>
    /\ Fetch({OP_NOT})
    /\ IF IpOverflow(ip) \/ stack = <<>> THEN Panic
       ELSE /\ ip' = Inc(ip)
            /\ stack' = push(pop(stack), Boolean(is_falsey(peek(stack, 0))))
            /\ UNCHANGED <<chunk, strings, globals, pc, result, source, diag,
                           output, calls, build>>

\* runtime_error followed by return InterpretRuntimeError
RuntimeErrorReturn(message) ==
    /\ output' = output \o <<"Runtime error: ", message, "\n">>
    /\ stack' = <<>>
    /\ Return("InterpretRuntimeError")

Run_Negate ==
    /\ UNCHANGED <<compVars, scanVars>>
    /\ Fetch({OP_NEGATE})
    /\ IF IpOverflow(ip) \/ stack = <<>> THEN Panic
       ELSE /\ ip' = Inc(ip)
            /\ UNCHANGED <<chunk, strings, globals, source, diag, calls,
                           build>>
            /\ IF ~is_number(peek(stack, 0))
               THEN RuntimeErrorReturn("Operand must be a number.")
               ELSE /\ stack' = push(pop(stack),
                                     NumMul(peek(stack, 0), Number(-1, 1)))
                    /\ UNCHANGED <<pc, result, output>>

\* intern_string that builds the string and stores nothing
intern_string_NoStore(table, content) == table

\* intern_string: the table after the call; it returns ObjString(content)
intern_string(table, content) ==
    IF table_has(table, content) THEN table
    ELSE table_set(table, content, ObjString(content))

\* peek(0).is_string() && peek(1).is_string(), and the same with
\* is_number, index below the stack when peek(0) passes the test and the
\* stack holds one value
PairTestPanics(stk, tag) ==
    stk = <<>> \/ (peek(stk, 0).t = tag /\ Len(stk) < 2)

\* tag "str" is is_string, tag "num" is is_number
PairTest(stk, tag) ==
    Len(stk) >= 2 /\ peek(stk, 0).t = tag /\ peek(stk, 1).t = tag

Run_Add ==
    /\ UNCHANGED <<compVars, scanVars>>
    /\ Fetch({OP_ADD})
    /\ IF \/ IpOverflow(ip)
          \/ PairTestPanics(stack, "str")
          \/ PairTestPanics(stack, "num")
       THEN Panic
       ELSE /\ ip' = Inc(ip)
            /\ UNCHANGED <<chunk, globals, source, diag, calls, build>>
            /\ LET b == peek(stack, 0)
                   a == IF Len(stack) >= 2 THEN peek(stack, 1) ELSE Nil
               IN
               IF PairTest(stack, "str")
               THEN \* concatenate
                    LET new_string == a.s \o b.s IN
                    /\ strings' = intern_string(strings, new_string)
                    /\ stack' = push(pop(pop(stack)), ObjString(new_string))
                    /\ UNCHANGED <<pc, result, output>>
               ELSE IF PairTest(stack, "num")
               THEN /\ stack' = push(pop(pop(stack)), NumAdd(a, b))
                    /\ UNCHANGED <<strings, pc, result, output>>
               ELSE /\ RuntimeErrorReturn(
                          "Operands must be two numbers or two strings.")
                    /\ UNCHANGED strings

BinaryResult(op, a, b) ==
    CASE op = OP_SUBTRACT -> NumSub(a, b)
      [] op = OP_MULTIPLY -> NumMul(a, b)
      [] op = OP_DIVIDE -> NumDiv(a, b)
      [] op = OP_GREATER -> Boolean(NumGreater(a, b))
      [] op = OP_LESS -> Boolean(NumLess(a, b))

\* binary_op as run calls it for - * / > <: run drops the InterpretResult
\* binary_op returns, so after runtime_error the loop goes on
binary_op ==
    IF ~PairTest(stack, "num")
    THEN /\ output' = output \o <<"Runtime error: ",
                                  "Operands must be numbers.", "\n">>
         /\ stack' = <<>>
    ELSE /\ stack' = push(pop(pop(stack)),
                          BinaryResult(chunk.code[ip + 1],
                                       peek(stack, 1), peek(stack, 0)))
         /\ UNCHANGED output

Run_Binary ==
    /\ UNCHANGED <<compVars, scanVars>>
    /\ Fetch({OP_SUBTRACT, OP_MULTIPLY, OP_DIVIDE, OP_GREATER, OP_LESS})
    /\ IF IpOverflow(ip) \/ PairTestPanics(stack, "num") THEN Panic
       ELSE /\ ip' = Inc(ip)
            /\ binary_op
            /\ UNCHANGED <<chunk, strings, globals, pc, result, source, diag,
                           calls, build>>

Run_Equal ==
    /\ UNCHANGED <<compVars, scanVars>>
    /\ Fetch({OP_EQUAL})
    /\ IF IpOverflow(ip) \/ Len(stack) < 2 THEN Panic
       ELSE /\ ip' = Inc(ip)
            /\ stack' = push(pop(pop(stack)),
                    Boolean(values_equal(peek(stack, 1), peek(stack, 0))))
            /\ UNCHANGED <<chunk, strings, globals, pc, result, source, diag,
                           output, calls, build>>

Run_Print ==
    /\ UNCHANGED <<compVars, scanVars>>
    /\ Fetch({OP_PRINT})
    /\ IF IpOverflow(ip) \/ stack = <<>> THEN Panic
       ELSE /\ ip' = Inc(ip)
            /\ stack' = pop(stack)
            /\ output' = output \o print_value(peek(stack, 0)) \o <<"\n">>
            /\ UNCHANGED <<chunk, strings, globals, pc, result, source, diag,
                           calls, build>>

Run_Pop ==
    /\ UNCHANGED <<compVars, scanVars>>
    /\ Fetch({OP_POP})
    /\ IF IpOverflow(ip) \/ stack = <<>> THEN Panic
       ELSE /\ ip' = Inc(ip)
            /\ stack' = pop(stack)
            /\ UNCHANGED <<chunk, strings, globals, pc, result, source, diag,
                           output, calls, build>>

\* read_string panics unless the operand names a string constant
read_string_panics(i) ==
    \/ i >= Len(chunk.code)
    \/ chunk.code[i + 1] >= Len(chunk.constants)
    \/ ~is_string(chunk.constants[chunk.code[i + 1] + 1])

read_string(i) == chunk.constants[chunk.code[i + 1] + 1].s

Run_DefineGlobal ==
    /\ UNCHANGED <<compVars, scanVars>>
    /\ Fetch({OP_DEFINE_GLOBAL})
    /\ LET ip1 == Inc(ip) IN
       IF \/ IpOverflow(ip)
          \/ read_string_panics(ip1)
          \/ IpOverflow(ip1)
          \/ stack = <<>>
       THEN Panic
       ELSE /\ ip' = Inc(ip1)
            /\ globals' = table_set(globals, read_string(ip1),
                                    peek(stack, 0))
            /\ stack' = pop(stack)
            /\ UNCHANGED <<chunk, strings, pc, result, source, diag, output,
                           calls, build>>

HandledOps ==
    {OP_RETURN, OP_CONSTANT, OP_NIL, OP_TRUE, OP_FALSE, OP_NOT, OP_NEGATE,
     OP_ADD, OP_SUBTRACT, OP_MULTIPLY, OP_DIVIDE, OP_EQUAL, OP_GREATER,
     OP_LESS, OP_PRINT, OP_POP, OP_DEFINE_GLOBAL}

\* the default arm of the match: panic!("unknown instruction")
Run_Unknown ==
    /\ UNCHANGED <<compVars, scanVars>>
    /\ Fetch(0..255 \ HandledOps)
    /\ Panic

Run ==
    \/ Run_Return
    \/ Run_Constant
    \/ Run_Literal
    \/ Run_Not
    \/ Run_Negate
    \/ Run_Add
    \/ Run_Binary
    \/ Run_Equal
    \/ Run_Print
    \/ Run_Pop
    \/ Run_DefineGlobal
    \/ Run_Unknown

(***************************************************************************)
(* The programs handed to interpret                                        *)
(***************************************************************************)
\* BEGIN SOURCES
\* 1 + 2
SrcTestSimple ==
    <<"1", " ", "+", " ", "2">>

\* print 1 + 2 * 3;
SrcPrintArith ==
    <<"p", "r", "i", "n", "t", " ", "1", " ", "+", " ", "2", " ", "*", " ",
      "3", ";">>

\* print "foo" + "bar";
SrcConcat ==
    <<"p", "r", "i", "n", "t", " ", "\"", "f", "o", "o", "\"", " ", "+",
      " ", "\"", "b", "a", "r", "\"", ";">>

\* print "a" + "b" + "ab";
SrcConcatTwice ==
    <<"p", "r", "i", "n", "t", " ", "\"", "a", "\"", " ", "+", " ", "\"",
      "b", "\"", " ", "+", " ", "\"", "a", "b", "\"", ";">>

\* -"x";
SrcNegateString ==
    <<"-", "\"", "x", "\"", ";">>

\* print -2;
SrcNegateNumber ==
    <<"p", "r", "i", "n", "t", " ", "-", "2", ";">>

\* 1 + nil;
SrcAddNil ==
    <<"1", " ", "+", " ", "n", "i", "l", ";">>

\* "a" + 1;
SrcAddMixed ==
    <<"\"", "a", "\"", " ", "+", " ", "1", ";">>

\* 1 - nil;
SrcSubtractNil ==
    <<"1", " ", "-", " ", "n", "i", "l", ";">>

\* print "a" * 2;
SrcMultiplyString ==
    <<"p", "r", "i", "n", "t", " ", "\"", "a", "\"", " ", "*", " ", "2",
      ";">>

\* var q = 4 / true;
SrcDivideBool ==
    <<"v", "a", "r", " ", "q", " ", "=", " ", "4", " ", "/", " ", "t", "r",
      "u", "e", ";">>

\* nil > 1;
SrcGreaterNil ==
    <<"n", "i", "l", " ", ">", " ", "1", ";">>

\* 1 < "b";
SrcLessString ==
    <<"1", " ", "<", " ", "\"", "b", "\"", ";">>

\* print 1 / 4 - 3;
SrcDivide ==
    <<"p", "r", "i", "n", "t", " ", "1", " ", "/", " ", "4", " ", "-", " ",
      "3", ";">>

\* print 1 < 2; print 2 >= 3;
SrcCompare ==
    <<"p", "r", "i", "n", "t", " ", "1", " ", "<", " ", "2", ";", " ", "p",
      "r", "i", "n", "t", " ", "2", " ", ">", "=", " ", "3", ";">>

\* print 1 == "1";
SrcEqualMixed ==
    <<"p", "r", "i", "n", "t", " ", "1", " ", "=", "=", " ", "\"", "1",
      "\"", ";">>

\* print !nil != true;
SrcNotNil ==
    <<"p", "r", "i", "n", "t", " ", "!", "n", "i", "l", " ", "!", "=", " ",
      "t", "r", "u", "e", ";">>

\* a = 1;
SrcAssignUndefined ==
    <<"a", " ", "=", " ", "1", ";">>

\* var a = 1;
SrcDefineA1 ==
    <<"v", "a", "r", " ", "a", " ", "=", " ", "1", ";">>

\* var a = "x"; var b;
SrcDefineA2 ==
    <<"v", "a", "r", " ", "a", " ", "=", " ", "\"", "x", "\"", ";", " ",
      "v", "a", "r", " ", "b", ";">>

\* var a = 1; print a;
SrcReadGlobal ==
    <<"v", "a", "r", " ", "a", " ", "=", " ", "1", ";", " ", "p", "r", "i",
      "n", "t", " ", "a", ";">>

\* { var a = 1; var b = 2; } 3;
SrcBlockLocals ==
    <<"{", " ", "v", "a", "r", " ", "a", " ", "=", " ", "1", ";", " ", "v",
      "a", "r", " ", "b", " ", "=", " ", "2", ";", " ", "}", " ", "3", ";">>

\* { var a = 1; print a; }
SrcReadLocal ==
    <<"{", " ", "v", "a", "r", " ", "a", " ", "=", " ", "1", ";", " ", "p",
      "r", "i", "n", "t", " ", "a", ";", " ", "}">>

\* var a = 1; { var a = 2; print a; } print a;
SrcShadow ==
    <<"v", "a", "r", " ", "a", " ", "=", " ", "1", ";", " ", "{", " ", "v",
      "a", "r", " ", "a", " ", "=", " ", "2", ";", " ", "p", "r", "i", "n",
      "t", " ", "a", ";", " ", "}", " ", "p", "r", "i", "n", "t", " ", "a",
      ";">>

\* { var a = 1; var a = 2; }
SrcRedeclare ==
    <<"{", " ", "v", "a", "r", " ", "a", " ", "=", " ", "1", ";", " ", "v",
      "a", "r", " ", "a", " ", "=", " ", "2", ";", " ", "}">>

\* if (true) print 1;
SrcIf ==
    <<"i", "f", " ", "(", "t", "r", "u", "e", ")", " ", "p", "r", "i", "n",
      "t", " ", "1", ";">>

\* while (false) 1;
SrcWhile ==
    <<"w", "h", "i", "l", "e", " ", "(", "f", "a", "l", "s", "e", ")", " ",
      "1", ";">>

\* var r = false and true;
SrcAnd ==
    <<"v", "a", "r", " ", "r", " ", "=", " ", "f", "a", "l", "s", "e", " ",
      "a", "n", "d", " ", "t", "r", "u", "e", ";">>

\* var r = true and 2;
SrcAndRight ==
    <<"v", "a", "r", " ", "r", " ", "=", " ", "t", "r", "u", "e", " ", "a",
      "n", "d", " ", "2", ";">>

\* var r = true or false;
SrcOr ==
    <<"v", "a", "r", " ", "r", " ", "=", " ", "t", "r", "u", "e", " ", "o",
      "r", " ", "f", "a", "l", "s", "e", ";">>

\* var r = nil or "x";
SrcOrRight ==
    <<"v", "a", "r", " ", "r", " ", "=", " ", "n", "i", "l", " ", "o", "r",
      " ", "\"", "x", "\"", ";">>

\* if (nil or "x") print "yes"; else print "no";
SrcIfOr ==
    <<"i", "f", " ", "(", "n", "i", "l", " ", "o", "r", " ", "\"", "x",
      "\"", ")", " ", "p", "r", "i", "n", "t", " ", "\"", "y", "e", "s",
      "\"", ";", " ", "e", "l", "s", "e", " ", "p", "r", "i", "n", "t",
      " ", "\"", "n", "o", "\"", ";">>

\* var a; var b; nil;
SrcDisasmPanic ==
    <<"v", "a", "r", " ", "a", ";", " ", "v", "a", "r", " ", "b", ";", " ",
      "n", "i", "l", ";">>

\* print ;
SrcNoExpression ==
    <<"p", "r", "i", "n", "t", " ", ";">>

\* print !0; print !""; print !true; print !false;
SrcNotValues ==
    <<"p", "r", "i", "n", "t", " ", "!", "0", ";", " ", "p", "r", "i", "n",
      "t", " ", "!", "\"", "\"", ";", " ", "p", "r", "i", "n", "t", " ",
      "!", "t", "r", "u", "e", ";", " ", "p", "r", "i", "n", "t", " ", "!",
      "f", "a", "l", "s", "e", ";">>

\* print "a" == "a"; print nil == nil; print 0 == 0; print "" == "";
SrcEqualSame ==
    <<"p", "r", "i", "n", "t", " ", "\"", "a", "\"", " ", "=", "=", " ",
      "\"", "a", "\"", ";", " ", "p", "r", "i", "n", "t", " ", "n", "i",
      "l", " ", "=", "=", " ", "n", "i", "l", ";", " ", "p", "r", "i", "n",
      "t", " ", "0", " ", "=", "=", " ", "0", ";", " ", "p", "r", "i", "n",
      "t", " ", "\"", "\"", " ", "=", "=", " ", "\"", "\"", ";">>

\* print "a" + "b"; print "a" + "b";
SrcConcatAgain ==
    <<"p", "r", "i", "n", "t", " ", "\"", "a", "\"", " ", "+", " ", "\"",
      "b", "\"", ";", " ", "p", "r", "i", "n", "t", " ", "\"", "a", "\"",
      " ", "+", " ", "\"", "b", "\"", ";">>

\* print "a" == "b"; print true == false; print nil == false; print "1" == 1;
SrcEqualOther ==
    <<"p", "r", "i", "n", "t", " ", "\"", "a", "\"", " ", "=", "=", " ",
      "\"", "b", "\"", ";", " ", "p", "r", "i", "n", "t", " ", "t", "r",
      "u", "e", " ", "=", "=", " ", "f", "a", "l", "s", "e", ";", " ", "p",
      "r", "i", "n", "t", " ", "n", "i", "l", " ", "=", "=", " ", "f", "a",
      "l", "s", "e", ";", " ", "p", "r", "i", "n", "t", " ", "\"", "1",
      "\"", " ", "=", "=", " ", "1", ";">>

Sources ==
    {SrcTestSimple, SrcPrintArith, SrcConcat, SrcConcatTwice,
     SrcNegateString, SrcNegateNumber, SrcAddNil, SrcAddMixed,
     SrcSubtractNil, SrcMultiplyString, SrcDivideBool, SrcGreaterNil,
     SrcLessString, SrcDivide, SrcCompare, SrcEqualMixed, SrcNotNil,
     SrcAssignUndefined, SrcDefineA1, SrcDefineA2, SrcReadGlobal,
     SrcBlockLocals, SrcReadLocal, SrcShadow, SrcRedeclare, SrcIf,
     SrcWhile, SrcAnd, SrcAndRight, SrcOr, SrcOrRight, SrcIfOr,
     SrcDisasmPanic, SrcNoExpression, SrcNotValues, SrcEqualSame,
     SrcConcatAgain, SrcEqualOther}

\* END SOURCES
MaxCalls == 2

Builds == {"debug", "release"}

VmInit ==
    /\ init_vm
    /\ pc = "idle"
    /\ result = "none"
    /\ source = <<>>
    /\ diag = <<>>
    /\ output = <<>>
    /\ calls = 0

\* no stand-alone Scanner is at work: no call has returned a token
ScannerOff ==
    /\ scanner = init_scanner(<<>>)
    /\ token = make_token(init_scanner(<<>>), NoToken)

CompilerOff ==
    /\ prog = <<>>
    /\ comp = Compiler_new(<<>>)
    /\ cpc = "off"
    /\ frames = <<>>

Init ==
    /\ VmInit
    /\ build \in Builds
    /\ CompilerOff
    /\ ScannerOff

Call ==
    /\ calls < MaxCalls
    /\ \E src \in Sources : Interpret(src)
    /\ UNCHANGED <<compVars, scanVars>>

Next == Call \/ Run

Spec == Init /\ [][Next]_vars

(***************************************************************************)
(* The properties of VM::interpret and VM::run                             *)
(***************************************************************************)
ArithmeticOps == {OP_SUBTRACT, OP_MULTIPLY, OP_DIVIDE, OP_GREATER, OP_LESS}

\* the instruction at ip calls runtime_error when it is executed
RaisesRuntimeError ==
    /\ ~IpOverflow(ip)
    /\ \/ /\ Fetch({OP_NEGATE})
          /\ stack # <<>>
          /\ ~is_number(peek(stack, 0))
       \/ /\ Fetch({OP_ADD})
          /\ ~PairTestPanics(stack, "str")
          /\ ~PairTestPanics(stack, "num")
          /\ ~PairTest(stack, "str")
          /\ ~PairTest(stack, "num")
       \/ /\ Fetch(ArithmeticOps)
          /\ ~PairTestPanics(stack, "num")
          /\ ~PairTest(stack, "num")

\* C1: the step that raises a runtime error (OP_NEGATE on a non-number,
\* OP_ADD on operands that are neither two numbers nor two strings, an
\* arithmetic or comparison instruction with a non-number operand) ends
\* run: no further instruction is executed, the stack is empty and
\* interpret returns InterpretRuntimeError.
C1_RuntimeErrorEndsRun ==
    [][RaisesRuntimeError =>
          /\ pc' = "idle"
          /\ result' = "InterpretRuntimeError"
          /\ stack' = <<>>]_vars

\* C2: a call of interpret for which the compiler reports an error returns
\* InterpretCompileError at once, and leaves the value stack, the globals
\* and the intern table as they were.
C2_CompileErrorRunsNothing ==
    [][(calls' # calls /\ diag' # <<>>) =>
          /\ pc' = "idle"
          /\ result' = "InterpretCompileError"
          /\ stack' = stack
          /\ globals' = globals
          /\ strings' = strings]_vars

\* a second call fails to compile on a VM that holds a global
C2_Witness ==
    /\ calls = 2
    /\ pc = "idle"
    /\ result = "InterpretCompileError"
    /\ diag # <<>>
    /\ DOMAIN globals # {}

\* C3: in a chunk of a successful compile every opcode run fetches has a
\* handler: the 'unknown instruction' arm is never the one taken.
C3_EveryOpcodeHandled ==
    (pc = "run" /\ ip < Len(chunk.code)) => chunk.code[ip + 1] \in HandledOps

\* C4: on a fresh VM `a = 1;` compiles, interpret returns
\* InterpretRuntimeError, and a is still no global.
C4_AssignUndefinedGlobal ==
    (calls = 1 /\ source = SrcAssignUndefined /\ pc # "run") =>
        /\ diag = <<>>
        /\ pc = "idle"
        /\ result = "InterpretRuntimeError"
        /\ ~table_has(globals, <<"a">>)

\* C5: interpret of `1 + 2`, the source of tests::test_simple, returns
\* InterpretOk.
C5_TestSimpleReturnsOk ==
    (source = SrcTestSimple /\ pc # "run") =>
        (pc = "idle" /\ result = "InterpretOk")

\* the value `var r = A and B;` and `var r = A or B;` must give r
ShortCircuitValue(src) ==
    CASE src = SrcAnd -> Boolean(FALSE)
      [] src = SrcAndRight -> Number(2, 1)
      [] src = SrcOr -> Boolean(TRUE)
      [] src = SrcOrRight -> ObjString(<<"x">>)

\* C6: `A and B` leaves the value of A when A is falsey and that of B
\* otherwise, `A or B` the value of A when A is truthy and that of B
\* otherwise: exactly one value, which `var r = ...;` binds to r.
C6_ShortCircuit ==
    (/\ calls = 1
     /\ source \in {SrcAnd, SrcAndRight, SrcOr, SrcOrRight}
     /\ pc # "run") =>
        /\ pc = "idle"
        /\ result = "InterpretOk"
        /\ table_has(globals, <<"r">>)
        /\ globals[<<"r">>] = ShortCircuitValue(source)

\* the offsets in the code of the program at which compile's loop has
\* finished a top-level declaration, and offset 0 where the first starts
RECURSIVE DeclarationEnds(_)
DeclarationEnds(c) ==
    LET Ends(c1) == {Len(c1.compiling_chunk.code)} \cup DeclarationEnds(c1)
    IN IF check(c, "Eof") THEN {} ELSE Ends(declaration(c))

DeclarationBounds(src) == {0} \cup DeclarationEnds(advance(Compiler_new(src)))

C8_GlobalsPersist ==
    [][/\ (Fetch({OP_DEFINE_GLOBAL}) /\ pc' # "panicked") =>
             /\ table_has(globals', read_string(Inc(ip)))
             /\ globals'[read_string(Inc(ip))] = peek(stack, 0)
             /\ stack' = pop(stack)
       /\ \A name \in DOMAIN globals :
             /\ table_has(globals', name)
             /\ globals'[name] # globals[name] =>
                   /\ Fetch({OP_DEFINE_GLOBAL})
                   /\ read_string(Inc(ip)) = name
                   /\ globals'[name] = peek(stack, 0)]_vars

\* a global defined by the first call is there after the second call has
\* ended in a runtime error
C8_Witness ==
    /\ calls = 2
    /\ pc = "idle"
    /\ result = "InterpretRuntimeError"
    /\ table_has(globals, <<"a">>)
    /\ globals[<<"a">>] = Number(1, 1)

(***************************************************************************)
(* Compiler::compile on its own, one declaration per step, for programs    *)
(* built of blocks, variable declarations and reads of a variable          *)
(***************************************************************************)
MaxItems == 5

Items == {"{", "}", "var a;", "var b;", "print a;", "print b;"}

ItemText(item) ==
    CASE item = "{" -> <<"{">>
      [] item = "}" -> <<"}">>
      [] item = "var a;" -> <<"v", "a", "r", " ", "a", ";">>
      [] item = "var b;" -> <<"v", "a", "r", " ", "b", ";">>
      [] item = "print a;" -> <<"p", "r", "i", "n", "t", " ", "a", ";">>
      [] item = "print b;" -> <<"p", "r", "i", "n", "t", " ", "b", ";">>
      [] item = "var a = a;" ->
            <<"v", "a", "r", " ", "a", " ", "=", " ", "a", ";">>
      [] item = "0;" -> <<"0", ";">>
      [] item = "\"s\";" -> <<"\"", "s", "\"", ";">>
      [] item = "a = 0;" -> <<"a", " ", "=", " ", "0", ";">>
      [] item = "\"U+00E9a\";" -> <<"\"", "U+00E9", "a", "\"", ";">>
      [] item = "0" -> <<"0">>
      [] item = ";" -> <<";">>
      [] item = "@" -> <<"@">>
      [] item = "print" -> <<"p", "r", "i", "n", "t">>
      [] item = "var" -> <<"v", "a", "r">>
      [] item = "1" -> <<"1">>
      [] item = "2" -> <<"2">>
      [] item = "3" -> <<"3">>
      [] item = "a" -> <<"a">>
      [] item = "b" -> <<"b">>
      [] item = "+" -> <<"+">>
      [] item = "-" -> <<"-">>
      [] item = "*" -> <<"*">>
      [] item = "/" -> <<"/">>
      [] item = "<" -> <<"<">>
      [] item = "==" -> <<"=", "=">>
      [] item = "=" -> <<"=">>
      [] item = "(" -> <<"(">>
      [] item = ")" -> <<")">>

\* the name an item declares or reads
ItemName(item) ==
    IF item \in {"var a;", "print a;", "var a = a;"} THEN <<"a">> ELSE <<"b">>

\* the number of blocks open after the first n items
RECURSIVE OpenBlocks(_, _)
OpenBlocks(items, n) ==
    IF n = 0 THEN 0
    ELSE OpenBlocks(items, n - 1)
            + (IF items[n] = "{" THEN 1 ELSE IF items[n] = "}" THEN -1 ELSE 0)

\* no item closes a block that is not open
Balanced(items) == \A n \in 1..Len(items) : OpenBlocks(items, n) >= 0

Programs ==
    {items \in UNION {[1..n -> Items] : n \in 0..MaxItems} : Balanced(items)}

RECURSIVE Closing(_)
Closing(n) == IF n = 0 THEN <<>> ELSE <<" ", "}">> \o Closing(n - 1)

RECURSIVE RenderItems(_, _)
RenderItems(items, n) ==
    IF n = 0 THEN <<>>
    ELSE RenderItems(items, n - 1) \o ItemText(items[n]) \o <<" ">>

\* the source text: the items, then a '}' for every block left open
Render(items) ==
    RenderItems(items, Len(items)) \o Closing(OpenBlocks(items, Len(items)))

\* compile up to the loop: lines 430-431
Compile_Begin ==
    /\ UNCHANGED <<vmAll, scanVars>>
    /\ cpc = "start"
    /\ comp' = advance([comp EXCEPT !.compiling_chunk = chunk])
    /\ cpc' = "loop"
    /\ UNCHANGED <<prog, frames>>

\* one turn of the loop: lines 433-435
Compile_Declaration ==
    /\ UNCHANGED <<vmAll, scanVars>>
    /\ cpc = "loop"
    /\ ~check(comp, "Eof")
    /\ comp' = declaration(comp)
    /\ UNCHANGED <<prog, cpc, frames>>

\* the loop ends at Eof: lines 433 and 438-439
Compile_End ==
    /\ UNCHANGED <<vmAll, scanVars>>
    /\ cpc = "loop"
    /\ check(comp, "Eof")
    /\ comp' = end_compiler(advance(comp))
    /\ cpc' = "done"
    /\ UNCHANGED <<prog, frames>>

DeclInit ==
    /\ VmInit
    /\ build = "debug"
    /\ prog \in Programs
    /\ comp = Compiler_new(Render(prog))
    /\ cpc = "start"
    /\ frames = <<>>
    /\ ScannerOff

DeclNext == Compile_Begin \/ Compile_Declaration \/ Compile_End

SpecDecl == DeclInit /\ [][DeclNext]_vars

\* The scopes of a program, read off its items: the locals that are live
\* after the first n items, each with the depth of the block that declares
\* it, in the order of their declarations; whether a block has declared a
\* name it had declared already; and, for every read, the local it names
Max(S) == CHOOSE x \in S : \A y \in S : y <= x

Range(seq) == {seq[i] : i \in 1..Len(seq)}

RECURSIVE Scopes(_, _)
Scopes(items, n) ==
    IF n = 0
    THEN [live |-> <<>>, depth |-> 0, duplicate |-> FALSE, reads |-> <<>>]
    ELSE LET s == Scopes(items, n - 1)
             item == items[n]
             name == ItemName(item)
             named == {i \in 1..Len(s.live) : s.live[i].name = name}
             Outlives(local) == local.depth <= s.depth - 1
         IN
         CASE item = "{" -> [s EXCEPT !.depth = @ + 1]
           [] item = "}" ->
                [s EXCEPT !.depth = @ - 1,
                          !.live = SelectSeq(@, Outlives)]
           [] item \in {"var a;", "var b;"} ->
                IF s.depth = 0 THEN s
                ELSE IF \E i \in named : s.live[i].depth = s.depth
                THEN [s EXCEPT !.duplicate = TRUE]
                ELSE [s EXCEPT !.live =
                         Append(@, [name |-> name, depth |-> s.depth])]
           [] item \in {"print a;", "print b;"} ->
                [s EXCEPT !.reads =
                    Append(@, IF named = {}
                              THEN [slot |-> -1, global |-> name]
                              ELSE [slot |-> Max(named) - 1,
                                    global |-> <<>>])]

HasDuplicate(items) == Scopes(items, Len(items)).duplicate

ExpectedReads(items) == Scopes(items, Len(items)).reads

AlreadyDeclared == "Variable with this name already declared in this scope."

\* C9: when a block declares a name it has declared already, compile
\* reports it and fails; when no block does, whatever the enclosing and
\* the enclosed blocks declare, compile does not report it.
C9_Redeclaration ==
    cpc = "done" =>
        IF HasDuplicate(prog)
        THEN comp.parser.had_error /\ AlreadyDeclared \in Range(comp.diag)
        ELSE AlreadyDeclared \notin Range(comp.diag)

\* a block redeclares a name that its enclosing block declares too
C9_Witness ==
    /\ cpc = "done"
    /\ HasDuplicate(prog)
    /\ comp.parser.had_error
    /\ \E i \in 1..Len(prog) : prog[i] = "{" /\ OpenBlocks(prog, i) = 2

\* the variable reads in the code compile emitted for such a program: the
\* slot of an OP_GET_LOCAL, or -1 and the name constant of an OP_GET_GLOBAL
RECURSIVE ReadsFrom(_, _)
ReadsFrom(ch, i) ==
    IF i >= Len(ch.code) THEN <<>>
    ELSE LET op == ch.code[i + 1] IN
         CASE op = OP_GET_LOCAL ->
                <<[slot |-> ch.code[i + 2], global |-> <<>>]>>
                    \o ReadsFrom(ch, i + 2)
           [] op = OP_GET_GLOBAL ->
                <<[slot |-> -1, global |-> ch.constants[ch.code[i + 2] + 1].s]>>
                    \o ReadsFrom(ch, i + 2)
           [] op = OP_DEFINE_GLOBAL -> ReadsFrom(ch, i + 2)
           [] OTHER -> ReadsFrom(ch, i + 1)

\* C10: every read of a name compiles to OP_GET_LOCAL of the slot of the
\* most recently declared live local of that name, and to OP_GET_GLOBAL of
\* the name exactly when no live local has it.
C10_ResolveLocal ==
    cpc = "done" =>
        ReadsFrom(comp.compiling_chunk, 0) = ExpectedReads(prog)

\* a read of a name that two live locals have, the inner one in slot 1
C10_Witness ==
    /\ cpc = "done"
    /\ ~HasDuplicate(prog)
    /\ \E i \in 1..Len(ExpectedReads(prog)) :
          /\ ExpectedReads(prog)[i].slot = 1
          /\ ReadsFrom(comp.compiling_chunk, 0)[i].slot = 1
    /\ \E i \in 1..Len(ExpectedReads(prog)) : ExpectedReads(prog)[i].slot = -1

(***************************************************************************)
(* Compiler::compile for programs in which a declaration reads the         *)
(* variable it declares                                                    *)
(***************************************************************************)
SelfItems == {"{", "}", "var a;", "var a = a;", "print a;"}

SelfPrograms ==
    {items \in UNION {[1..n -> SelfItems] : n \in 0..MaxItems} :
        Balanced(items)}

SelfInit ==
    /\ VmInit
    /\ build = "debug"
    /\ prog \in SelfPrograms
    /\ comp = Compiler_new(Render(prog))
    /\ cpc = "start"
    /\ frames = <<>>
    /\ ScannerOff

SpecSelf == SelfInit /\ [][DeclNext]_vars

OwnInitializer == "Cannot read local variable in its own initializer."

\* the items with `var a = a;` read as the declaration `var a;`
Declarations(items) ==
    [i \in DOMAIN items |->
        IF items[i] = "var a = a;" THEN "var a;" ELSE items[i]]

\* item n is `var a = a;` inside a block
SelfInBlock(items, n) ==
    items[n] = "var a = a;" /\ OpenBlocks(items, n - 1) > 0

\* item n is `var a = a;` inside a block that has not declared a before it,
\* so that it adds a local
SelfDeclares(items, n) ==
    /\ SelfInBlock(items, n)
    /\ LET s == Scopes(Declarations(items), n - 1)
       IN \A i \in 1..Len(s.live) :
            ~(s.live[i].name = <<"a">> /\ s.live[i].depth = s.depth)

\* C11: a program with `var a = a;` inside a block fails to compile, and
\* compile reports "Cannot read local variable in its own initializer."
\* exactly when such a declaration adds a local, whether or not an enclosing
\* block or the globals have a variable of that name.
C11_OwnInitializer ==
    cpc = "done" =>
        /\ (\E n \in 1..Len(prog) : SelfInBlock(prog, n))
                => comp.parser.had_error
        /\ OwnInitializer \in Range(comp.diag)
                <=> \E n \in 1..Len(prog) : SelfDeclares(prog, n)

\* `var a = a;` in a block inside a block that declares a too
C11_Witness ==
    /\ cpc = "done"
    /\ Len(prog) >= 4
    /\ prog[1] = "{" /\ prog[2] = "var a;" /\ prog[3] = "{"
    /\ prog[4] = "var a = a;"
    /\ comp.parser.had_error
    /\ comp.diag = <<OwnInitializer>>

(***************************************************************************)
(* Scanner::scan_token on its own, one call per step, for every source of  *)
(* up to MaxChars characters over ScanChars and for words in a context     *)
(***************************************************************************)
MaxChars == 4

ScanChars == {"\"", "\n", " ", "a", "!", "=", "/", "1", "U+00E9", "U+20AC"}

ScanSources == UNION {[1..n -> ScanChars] : n \in 0..MaxChars}

\* the spellings of the keywords, each with its token type
Keywords ==
    {[text |-> <<"a", "n", "d">>, token_type |-> "And"],
     [text |-> <<"c", "l", "a", "s", "s">>, token_type |-> "Class"],
     [text |-> <<"e", "l", "s", "e">>, token_type |-> "Else"],
     [text |-> <<"f", "a", "l", "s", "e">>, token_type |-> "False"],
     [text |-> <<"f", "o", "r">>, token_type |-> "For"],
     [text |-> <<"f", "u", "n">>, token_type |-> "Fun"],
     [text |-> <<"i", "f">>, token_type |-> "If"],
     [text |-> <<"n", "i", "l">>, token_type |-> "Nil"],
     [text |-> <<"o", "r">>, token_type |-> "Or"],
     [text |-> <<"p", "r", "i", "n", "t">>, token_type |-> "Print"],
     [text |-> <<"r", "e", "t", "u", "r", "n">>, token_type |-> "Return"],
     [text |-> <<"s", "u", "p", "e", "r">>, token_type |-> "Super"],
     [text |-> <<"t", "h", "i", "s">>, token_type |-> "This"],
     [text |-> <<"t", "r", "u", "e">>, token_type |-> "True"],
     [text |-> <<"v", "a", "r">>, token_type |-> "Var"],
     [text |-> <<"w", "h", "i", "l", "e">>, token_type |-> "While"]}

\* the words scanned: the keywords, what is left of a keyword when
\* characters are taken from its end, and the keywords with one more
\* character
Words ==
    LET texts == {k.text : k \in Keywords} IN
    texts
    \cup UNION {{SubSeq(w, 1, n) : n \in 1..(Len(w) - 1)} : w \in texts}
    \cup {w \o <<x>> : w \in texts, x \in {"s", "_", "1"}}

\* what stands before and after the word: nothing, a number, a comment or
\* a string literal with a character outside ASCII, a semicolon
WordsBefore ==
    {<<>>, <<"1", " ">>, <<"/", "/", "U+00E9", "\n">>,
     <<"\"", "U+20AC", "\"", " ">>}

WordsAfter == {<<>>, <<" ", "a">>, <<";">>}

WordSources ==
    {b \o w \o a : b \in WordsBefore, w \in Words, a \in WordsAfter}

\* digits and dots, among other characters
NumberChars == {"1", "2", ".", "a", "U+00E9"}

NumberSources == UNION {[1..n -> NumberChars] : n \in 0..MaxChars}

\* the four whitespace characters, slashes and a letter
BlankChars == {" ", "\t", "\r", "\n", "/", "a"}

BlankSources == UNION {[1..n -> BlankChars] : n \in 0..MaxChars}

\* one call of scan_token; after a panic there are no more calls
Scan_Token ==
    /\ UNCHANGED <<vmAll, compVars>>
    /\ ~scanner.panicked
    /\ scanner' = scan_token(scanner).sc
    /\ token' = scan_token(scanner).tok

ScanInit ==
    /\ VmInit
    /\ build = "debug"
    /\ CompilerOff
    /\ scanner \in {init_scanner(src) :
                        src \in ScanSources \cup WordSources
                                    \cup NumberSources \cup BlankSources}
    /\ token = make_token(scanner, NoToken)

ScanNext == Scan_Token

SpecScan == ScanInit /\ [][ScanNext]_vars

\* a call of scan_token can be made and changes the state
Scan_Enabled ==
    /\ ~scanner.panicked
    /\ <<scan_token(scanner).sc, scan_token(scanner).tok>> # <<scanner, token>>

\* C12: from every source, the calls of scan_token return a finite number
\* of tokens other than Eof and then an Eof token, and every call after an
\* Eof returns Eof again and leaves the cursor where it was.  Stated on
\* finite runs: the calls can stop changing the state only once the token
\* returned is Eof; a call that returns another token has moved the cursor
\* forward, so a finite source allows finitely many of them; and a call
\* made after Eof returns Eof with the cursor unchanged.
C12_ScanEndsInEof ==
    /\ [](Scan_Enabled \/ token.token_type = "Eof")
    /\ [][token'.token_type # "Eof" =>
            scanner'.current > scanner.current]_vars
    /\ [][token.token_type = "Eof" =>
            token'.token_type = "Eof" /\ scanner'.current = scanner.current]_vars

\* the characters of the source that the token spans
Spanned(sc, tok) == SubSeq(sc.source, tok.start + 1, tok.start + tok.length)

\* the token type of a word: that of the keyword it spells, else Identifier
WordType(word) ==
    IF \E k \in Keywords : k.text = word
    THEN (CHOOSE k \in Keywords : k.text = word).token_type
    ELSE "Identifier"

\* C13: a token that scan_token returns for an identifier lexeme is a
\* keyword token exactly when the lexeme is one of the 16 spellings, of the
\* kind of that spelling; for every other lexeme, the proper prefixes and
\* the extensions of keywords among them, it is an Identifier token.
C13_Keywords ==
    token.token_type \in {k.token_type : k \in Keywords} \cup {"Identifier"}
        => token.token_type = WordType(Spanned(scanner, token))

\* the number of LF characters among the characters from + 1 .. to
LineFeeds(src, from, to) ==
    Cardinality({k \in (from + 1)..to : k <= Len(src) /\ src[k] = "\n"})

\* the 0-based positions after q of the quotes in the source
QuotesAfter(src, q) == {p \in (q + 1)..(Len(src) - 1) : src[p + 1] = "\""}

\* the call of this step has begun a token at a quote
ScansString ==
    /\ token'.token_type # "Eof"
    /\ ~scanner'.panicked
    /\ CharsNth(scanner.source, scanner'.start) = "\""

\* C14: a call that begins a token at a quote returns, when a later quote
\* exists, one String token from the opening quote through the first later
\* quote, and the line counter has gone up by one for each LF the call has
\* passed, those inside the literal included; when no later quote exists it
\* returns the Error token "Unterminated string." with the cursor at the end
\* of the source, and the call after that returns Eof.
C14_Strings ==
    [][/\ ScansString =>
            LET src == scanner.source
                q == scanner'.start
                closing == QuotesAfter(src, q)
            IN IF closing # {}
               THEN LET p == CHOOSE x \in closing : \A y \in closing : x <= y
                    IN /\ token'.token_type = "String"
                       /\ token'.start = q
                       /\ token'.length = p - q + 1
                       /\ scanner'.current = p + 1
                       /\ scanner'.line =
                            scanner.line
                                + LineFeeds(src, scanner.current, p + 1)
                       /\ token'.line = scanner'.line
               ELSE /\ token'.token_type = "Error"
                    /\ token'.error_msg = <<"Unterminated string.">>
                    /\ is_at_end(scanner')
       /\ token.error_msg = <<"Unterminated string.">>
            => token'.token_type = "Eof"]_vars

\* a String token of two lines with a character outside ASCII in it
C14_Witness ==
    /\ token.token_type = "String"
    /\ token.length = 4
    /\ "\n" \in Range(Spanned(scanner, token))
    /\ "U+00E9" \in Range(Spanned(scanner, token))
    /\ token.line = 2

\* Compiler::string called with the token as the previous token
StringConstant(sc, tok) ==
    string([Compiler_new(<<>>) EXCEPT !.scanner = sc,
                                      !.parser.previous = tok], FALSE)

\* C15: for a String token with a character outside ASCII in the literal,
\* start and start + length are the byte offsets of the opening quote and
\* of the end of the closing quote, and Compiler::string makes a constant
\* of exactly the characters between the quotes.
C15_Utf8Strings ==
    (/\ token.token_type = "String"
     /\ \E ch \in Range(Spanned(scanner, token)) : Utf8Len(ch) > 1)
        => /\ token.start = ByteOffset(scanner.source, scanner.start)
           /\ token.start + token.length
                = ByteOffset(scanner.source, scanner.current)
           /\ ~StringConstant(scanner, token).panicked
           /\ StringConstant(scanner, token).compiling_chunk.constants
                = <<ObjString(SubSeq(scanner.source, scanner.start + 2,
                                     scanner.current - 1))>>

\* compile has returned true: it has ended, not in a panic, and had_error
\* is false
CompileReturnsTrue(c) == ~c.panicked /\ ~c.parser.had_error

\* C16: no step of compile clears had_error; when compile has ended, the
\* last byte of the chunk is OP_RETURN, and compile returns true exactly when
\* no diagnostic has been reported.
C16_CompileResult ==
    [][/\ comp.parser.had_error => comp'.parser.had_error
       /\ cpc' = "done" =>
            /\ comp'.compiling_chunk.code # <<>>
            /\ comp'.compiling_chunk.code[Len(comp'.compiling_chunk.code)]
                    = OP_RETURN
            /\ CompileReturnsTrue(comp') <=> comp'.diag = <<>>]_vars

(***************************************************************************)
(* Compiler::compile called with a chunk whose constants pool is nearly    *)
(* full, for programs of statements that each add a constant               *)
(***************************************************************************)
MaxConstItems == 3

ConstItems == {"0;", "\"s\";", "var a;", "print a;", "a = 0;"}

ConstPrograms == UNION {[1..n -> ConstItems] : n \in 0..MaxConstItems}

\* the numbers of constants in the chunk that compile is given
Fills == {253, 254, 255, 256}

\* the chunk that the compilation of k statements `0;` on line 1 leaves
\* behind, without the OP_RETURN
Filled(k) ==
    [code |-> [i \in 1..(3 * k) |->
                    CASE i % 3 = 1 -> OP_CONSTANT
                      [] i % 3 = 2 -> (i - 2) \div 3
                      [] OTHER -> OP_POP],
     constants |-> [i \in 1..k |-> Number(0, 1)],
     lines |-> [i \in 1..(3 * k) |-> 1]]

ConstInit ==
    /\ chunk \in {Filled(k) : k \in Fills}
    /\ ip = 0
    /\ stack = <<>>
    /\ strings = init_table
    /\ globals = init_table
    /\ pc = "idle"
    /\ result = "none"
    /\ source = <<>>
    /\ diag = <<>>
    /\ output = <<>>
    /\ calls = 0
    /\ build = "debug"
    /\ prog \in ConstPrograms
    /\ comp = Compiler_new(Render(prog))
    /\ cpc = "start"
    /\ frames = <<>>
    /\ ScannerOff

SpecConst == ConstInit /\ [][DeclNext]_vars

TooManyConstants == "Too many constants in one chunk."

\* the constant indices among the bytes the compiler has appended to code
\* in one step, read from position i of them on
RECURSIVE ConstantIndices(_, _)
ConstantIndices(bytes, i) ==
    IF i > Len(bytes) THEN {}
    ELSE IF bytes[i] \in {OP_CONSTANT, OP_DEFINE_GLOBAL, OP_GET_GLOBAL,
                          OP_SET_GLOBAL}
    THEN {bytes[i + 1]} \cup ConstantIndices(bytes, i + 2)
    ELSE IF bytes[i] \in {OP_GET_LOCAL, OP_SET_LOCAL}
    THEN ConstantIndices(bytes, i + 2)
    ELSE ConstantIndices(bytes, i + 1)

\* the bytes a step of the loop of compile, or its end, appends to code
Emitted == SubSeq(comp'.compiling_chunk.code,
                  Len(comp.compiling_chunk.code) + 1,
                  Len(comp'.compiling_chunk.code))

PoolSize(c) == Len(c.compiling_chunk.constants)

\* C17 as stated: the pool never holds more than 256 entries; a step that
\* adds a constant to a pool of 256 reports "Too many constants in one
\* chunk." and the compile fails; every constant index written into code is
\* smaller than 256 and than the pool size.
C17_ConstantsLimit ==
    [][/\ PoolSize(comp') <= 256
       /\ (PoolSize(comp) <= 256 /\ PoolSize(comp') > 256) =>
            /\ comp'.parser.had_error
            /\ TooManyConstants \in Range(comp'.diag)
       /\ cpc = "loop" =>
            \A index \in ConstantIndices(Emitted, 1) :
                index < 256 /\ index < PoolSize(comp')]_vars

\* C17 amended: add_constant appends to a pool of 256 all the same, so the
\* pool can hold more than 256 entries, but only in a compilation that has
\* failed; the step that takes the pool beyond 256 reports "Too many
\* constants in one chunk."; every constant index written into code is
\* smaller than 256 and than the pool size.
C17_ConstantsLimitAmended ==
    [][/\ PoolSize(comp') > 256 => comp'.parser.had_error
       /\ (PoolSize(comp) <= 256 /\ PoolSize(comp') > 256) =>
            /\ comp'.parser.had_error
            /\ TooManyConstants \in Range(comp'.diag)
       /\ cpc = "loop" =>
            \A index \in ConstantIndices(Emitted, 1) :
                index < 256 /\ index < PoolSize(comp')]_vars

\* a compilation that has ended with 258 constants in the pool
C17_Witness ==
    /\ cpc = "done"
    /\ PoolSize(comp) = 258
    /\ comp.parser.had_error
    /\ TooManyConstants \in Range(comp.diag)

(***************************************************************************)
(* Value::is_falsey, Value::values_equal and VM::concatenate, on the       *)
(* values the VM meets while it runs the sources                           *)
(***************************************************************************)
\* the values the VM holds: on its stack, among the constants of its chunk
\* and bound to its globals
Held ==
    {stack[i] : i \in DOMAIN stack}
        \cup {chunk.constants[i] : i \in DOMAIN chunk.constants}
        \cup {globals[name] : name \in DOMAIN globals}

\* C18: is_falsey is true of Nil and of Boolean(false) and of no other
\* value, whether number, string or Boolean(true); and OP_NOT replaces the
\* value on top of the stack by the boolean that is true iff that value is
\* Nil or Boolean(false), so the depth of the stack stays what it was.
C18_Falsey ==
    /\ [](\A v \in Held : is_falsey(v) <=> v \in {Nil, Boolean(FALSE)})
    /\ [][Fetch({OP_NOT}) =>
             /\ stack # <<>>
             /\ stack' = [stack EXCEPT ![Len(stack)] =
                             Boolean(peek(stack, 0) \in {Nil, Boolean(FALSE)})]
             /\ Len(stack') = Len(stack)]_vars

\* the instruction just executed is an OP_NOT, applied to the empty string
\* that the OP_CONSTANT before it had pushed, in a chunk that holds the
\* number 0 too, and it left Boolean(false)
C18_Witness ==
    /\ pc = "run"
    /\ source = SrcNotValues
    /\ ip >= 3
    /\ chunk.code[ip] = OP_NOT
    /\ chunk.code[ip - 2] = OP_CONSTANT
    /\ chunk.constants[chunk.code[ip - 1] + 1] = ObjString(<<>>)
    /\ Number(0, 1) \in Held
    /\ peek(stack, 0) = Boolean(FALSE)

\* C19: on the values the VM holds, values_equal gives the same answer
\* whichever argument comes first, is false of two values of different
\* variants, is true of a Nil, a boolean or a string and itself, and is
\* true of two strings iff they have the same content; and OP_EQUAL pops
\* b, then a, and pushes Boolean(values_equal(a, b)).
C19_ValuesEqual ==
    /\ [](\A a, b \in Held :
            /\ values_equal(a, b) = values_equal(b, a)
            /\ a.t # b.t => ~values_equal(a, b)
            /\ a.t \in {"nil", "bool", "str"} => values_equal(a, a)
            /\ (a.t = "str" /\ b.t = "str") =>
                   (values_equal(a, b) <=> a.s = b.s))
    /\ [][Fetch({OP_EQUAL}) =>
             /\ Len(stack) >= 2
             /\ stack' = SubSeq(stack, 1, Len(stack) - 2) \o
                   <<Boolean(values_equal(stack[Len(stack) - 1],
                                          stack[Len(stack)]))>>]_vars

\* the instruction just executed is an OP_EQUAL, applied to the string "1"
\* and the number 1 that two OP_CONSTANT before it had pushed, and it left
\* Boolean(false)
C19_Witness ==
    /\ pc = "run"
    /\ source = SrcEqualOther
    /\ ip >= 5
    /\ chunk.code[ip] = OP_EQUAL
    /\ chunk.code[ip - 4] = OP_CONSTANT
    /\ chunk.constants[chunk.code[ip - 3] + 1] = ObjString(<<"1">>)
    /\ chunk.code[ip - 2] = OP_CONSTANT
    /\ chunk.constants[chunk.code[ip - 1] + 1] = Number(1, 1)
    /\ peek(stack, 0) = Boolean(FALSE)

\* C20: OP_ADD applied to two strings replaces them by one string, the
\* content of the lower one followed by that of the top one, and the
\* intern table then holds that content under one key, with the entries
\* it had before unchanged: one entry more if the content was new to it,
\* none if not.  Applied to two finite numbers it replaces them by their
\* sum and leaves the table alone.  Either way the stack is one shorter.
C20_Add ==
    [][(Fetch({OP_ADD}) /\ Len(stack) >= 2) =>
          LET a == stack[Len(stack) - 1]
              b == stack[Len(stack)]
              rest == SubSeq(stack, 1, Len(stack) - 2)
          IN /\ (a.t = "str" /\ b.t = "str") =>
                   /\ stack' = Append(rest, ObjString(a.s \o b.s))
                   /\ Len(stack') = Len(stack) - 1
                   /\ DOMAIN strings' = DOMAIN strings \cup {a.s \o b.s}
                   /\ strings'[a.s \o b.s] = ObjString(a.s \o b.s)
                   /\ \A content \in DOMAIN strings :
                         strings'[content] = strings[content]
                   /\ Cardinality(DOMAIN strings') =
                         IF a.s \o b.s \in DOMAIN strings
                         THEN Cardinality(DOMAIN strings)
                         ELSE Cardinality(DOMAIN strings) + 1
             /\ (a.t = "num" /\ b.t = "num" /\ a.d # 0 /\ b.d # 0) =>
                   /\ stack' = Append(rest, Number(a.n * b.d + b.n * a.d,
                                                   a.d * b.d))
                   /\ Len(stack') = Len(stack) - 1
                   /\ strings' = strings]_vars

\* the instruction just executed is the second OP_ADD of a program that
\* concatenates "a" and "b" twice: the first had interned "ab", and the
\* table still holds it once
C20_Witness ==
    /\ pc = "run"
    /\ source = SrcConcatAgain
    /\ ip >= 2
    /\ chunk.code[ip] = OP_ADD
    /\ \E i \in 1..(ip - 2) :
          chunk.code[i] = OP_ADD /\ chunk.code[i + 1] = OP_PRINT
    /\ peek(stack, 0) = ObjString(<<"a", "b">>)
    /\ strings = table_set(init_table, <<"a", "b">>, ObjString(<<"a", "b">>))

(***************************************************************************)
(* The strings on the stack and the intern table                           *)
(***************************************************************************)
\* C21: every string on the stack of the VM, whether OP_CONSTANT loaded it
\* from a literal or OP_ADD built it, has its content as a key of the
\* intern table.
C21_StringIdentity ==
    \A i \in DOMAIN stack :
        stack[i].t = "str" => table_has(strings, stack[i].s)

(***************************************************************************)
(* The rules of `and` and `or`                                              *)
(***************************************************************************)
\* the bytes of the chunk that compile fills from the source
CompiledCode(src) == compile(src, init_chunk).compiling_chunk.code

\* C22: the rule of `and` has the infix handler and_ and the precedence
\* And, the rule of `or` has the infix handler or_ and the precedence Or,
\* and no other kind of token has and_ or or_ as a handler; so compiling
\* `false and true` or `true or false` as an initializer calls the handler,
\* which emits its OP_JUMP_IF_FALSE, and reports no error.
C22_AndOrRules ==
    /\ get_rule("And").infix = "and_"
    /\ get_rule("And").precedence = PREC_AND
    /\ get_rule("Or").infix = "or_"
    /\ get_rule("Or").precedence = PREC_OR
    /\ \A tt \in TokenTypes \ {"And", "Or"} :
          /\ get_rule(tt).infix \notin {"and_", "or_"}
          /\ get_rule(tt).prefix \notin {"and_", "or_"}
    /\ \A src \in {SrcAnd, SrcOr} :
          /\ ~compile(src, init_chunk).parser.had_error
          /\ OP_JUMP_IF_FALSE \in Range(CompiledCode(src))

(***************************************************************************)
(* Compiler::if_statement and Compiler::while_statement step by step:      *)
(* emit_jump, patch_jump and emit_loop around bodies of every size.  The   *)
(* tokens play no part in these steps, so the condition is `true` and a    *)
(* body is a run of statements `nil;`, given by the bytes they emit.       *)
(***************************************************************************)
MaxFrames == 2

MaxCode == 65545

\* the bodies that statement() compiles: nils times `nil;` and then nots
\* times `!nil;`.  A short one, and long ones around which a jump (the
\* body and 4 bytes) or a loop (the body and 8 bytes) covers 65535 bytes,
\* or one more
Bodies ==
    {[nils |-> 1, nots |-> 0],
     [nils |-> 32762, nots |-> 1], [nils |-> 32764, nots |-> 0],
     [nils |-> 32764, nots |-> 1], [nils |-> 32766, nots |-> 0]}

BodyLen(body) == 2 * body.nils + 3 * body.nots

\* the bytes of a body: OP_NIL OP_POP for `nil;`, OP_NIL OP_NOT OP_POP for
\* `!nil;`
BodyCode(body) ==
    [i \in 1..BodyLen(body) |->
        IF i <= 2 * body.nils
        THEN (IF i % 2 = 1 THEN OP_NIL ELSE OP_POP)
        ELSE CASE (i - 2 * body.nils) % 3 = 1 -> OP_NIL
               [] (i - 2 * body.nils) % 3 = 2 -> OP_NOT
               [] OTHER -> OP_POP]

\* the compiler after statement() has compiled the body: literal emits
\* OP_NIL, unary OP_NOT and expression_statement OP_POP
emit_statements(c, body) ==
    [c EXCEPT
        !.compiling_chunk.code = @ \o BodyCode(body),
        !.compiling_chunk.lines =
            @ \o [i \in 1..BodyLen(body) |-> c.parser.previous.line]]

\* the compiler in the middle of a declaration, with or without an error
\* reported before
JumpCompilers ==
    {[Compiler_new(<<>>) EXCEPT !.parser.previous.line = 1,
                                !.parser.had_error = flags[1],
                                !.parser.panic_mode = flags[2]] :
        flags \in {<<FALSE, FALSE>>, <<TRUE, FALSE>>, <<TRUE, TRUE>>}}

\* the innermost call that has not returned, 0 if there is none
Active == {i \in DOMAIN frames : frames[i].at # "done"}

Top == IF Active = {} THEN 0 ELSE CHOOSE i \in Active : \A j \in Active : j <= i

CodeLen == Len(comp.compiling_chunk.code)

\* statement() is about to compile the body of the innermost call
AtBody == Top # 0 /\ frames[Top].at \in {"then", "else", "body"}

\* if_statement up to its call of statement(): lines 679-690
If_Begin ==
    /\ UNCHANGED <<vmAll, scanVars>>
    /\ cpc = "jump"
    /\ Top = 0 \/ AtBody
    /\ Len(frames) < MaxFrames
    /\ CodeLen + 5 <= MaxCode
    /\ LET Then(c1) ==
               /\ comp' = emit_byte(c1, OP_POP)
               /\ frames' = Append(frames,
                      [kind |-> "if", at |-> "then", filled |-> FALSE,
                       loop_start |-> 0, jump |-> JumpOffset(c1),
                       else_jump |-> 0])
       IN Then(emit_jump(emit_byte(comp, OP_TRUE), OP_JUMP_IF_FALSE))
    /\ UNCHANGED <<prog, cpc>>

\* while_statement up to its call of statement(): lines 653-659
While_Begin ==
    /\ UNCHANGED <<vmAll, scanVars>>
    /\ cpc = "jump"
    /\ Top = 0 \/ AtBody
    /\ Len(frames) < MaxFrames
    /\ CodeLen + 5 <= MaxCode
    /\ LET Body(c1) ==
               /\ comp' = emit_byte(c1, OP_POP)
               /\ frames' = Append(frames,
                      [kind |-> "while", at |-> "body", filled |-> FALSE,
                       loop_start |-> CodeLen, jump |-> JumpOffset(c1),
                       else_jump |-> 0])
       IN Body(emit_jump(emit_byte(comp, OP_TRUE), OP_JUMP_IF_FALSE))
    /\ UNCHANGED <<prog, cpc>>

\* statement() compiles a body; a long body is the first body of the
\* outermost statement
Jump_Body ==
    /\ UNCHANGED <<vmAll, scanVars>>
    /\ cpc = "jump"
    /\ AtBody
    /\ ~frames[Top].filled
    /\ \E body \in Bodies :
          /\ CodeLen + BodyLen(body) <= MaxCode
          /\ body.nils > 1 =>
                (Len(frames) = 1 /\ frames[1].at \in {"then", "body"})
          /\ comp' = emit_statements(comp, body)
    /\ frames' = [frames EXCEPT ![Top].filled = TRUE]
    /\ UNCHANGED <<prog, cpc>>

\* if_statement after the then branch: line 692
If_Else ==
    /\ UNCHANGED <<vmAll, scanVars>>
    /\ cpc = "jump"
    /\ Top # 0
    /\ frames[Top].at = "then"
    /\ CodeLen + 3 <= MaxCode
    /\ comp' = emit_jump(comp, OP_JUMP)
    /\ frames' = [frames EXCEPT ![Top].at = "patch_then",
                                ![Top].else_jump = JumpOffset(comp')]
    /\ UNCHANGED <<prog, cpc>>

\* the jump that the innermost call patches next
PatchOffset ==
    IF frames[Top].at = "else" THEN frames[Top].else_jump
    ELSE frames[Top].jump

\* patch_jump(then_jump), patch_jump(else_jump), patch_jump(exit_jump):
\* lines 693, 699 and 663
Jump_Patch ==
    /\ UNCHANGED <<vmAll, scanVars>>
    /\ cpc = "jump"
    /\ Top # 0
    /\ frames[Top].at \in {"patch_then", "else", "patch_exit"}
    /\ comp' = patch_jump(comp, PatchOffset)
    /\ frames' = [frames EXCEPT ![Top].at =
                      IF @ = "else" THEN "done" ELSE "pop"]
    /\ UNCHANGED <<prog, cpc>>

\* emit_byte(OP_POP) after the patch: lines 694 and 664
Jump_Pop ==
    /\ UNCHANGED <<vmAll, scanVars>>
    /\ cpc = "jump"
    /\ Top # 0
    /\ frames[Top].at = "pop"
    /\ CodeLen + 1 <= MaxCode
    /\ comp' = emit_byte(comp, OP_POP)
    /\ frames' = [frames EXCEPT ![Top].at =
                      IF frames[Top].kind = "if" THEN "else" ELSE "done",
                                ![Top].filled = FALSE]
    /\ UNCHANGED <<prog, cpc>>

\* emit_loop(loop_start) after the body: line 661
While_Loop ==
    /\ UNCHANGED <<vmAll, scanVars>>
    /\ cpc = "jump"
    /\ Top # 0
    /\ frames[Top].at = "body"
    /\ CodeLen + 3 <= MaxCode
    /\ comp' = emit_loop(comp, frames[Top].loop_start)
    /\ frames' = [frames EXCEPT ![Top].at = "patch_exit"]
    /\ UNCHANGED <<prog, cpc>>

JumpInit ==
    /\ VmInit
    /\ build = "debug"
    /\ prog = <<>>
    /\ comp \in JumpCompilers
    /\ cpc = "jump"
    /\ frames = <<>>
    /\ ScannerOff

JumpNext ==
    \/ If_Begin
    \/ While_Begin
    \/ Jump_Body
    \/ If_Else
    \/ Jump_Patch
    \/ Jump_Pop
    \/ While_Loop

SpecJump == JumpInit /\ [][JumpNext]_vars

\* the step is a call of patch_jump: the innermost call stood before one
\* and has moved on
Patched ==
    /\ Top # 0
    /\ frames[Top].at \in {"patch_then", "else", "patch_exit"}
    /\ Len(frames') = Len(frames)
    /\ frames'[Top].at # frames[Top].at

\* the distance patch_jump is to encode: from the byte after the operand
\* to the end of the code
JumpDistance == CodeLen - PatchOffset - 2

\* the operand at offset off of the code, read big-endian
ReadShort(code, off) == code[off + 1] * 256 + code[off + 2]

\* C23: right after patch_jump(off) the two bytes at off decode, big-endian,
\* to the length of the code at that time less off less 2, so that a VM
\* standing after the operand (ip = off + 2) that adds the operand stands
\* at the end of the code, where the next byte will be emitted; every
\* other byte of code and all of lines are what they were.
C23_JumpEncoding ==
    [][Patched =>
          LET code == comp.compiling_chunk.code
              off == PatchOffset
          IN /\ ReadShort(comp'.compiling_chunk.code, off) = CodeLen - off - 2
             /\ off + 2 + ReadShort(comp'.compiling_chunk.code, off) = CodeLen
             /\ Len(comp'.compiling_chunk.code) = CodeLen
             /\ SubSeq(comp'.compiling_chunk.code, 1, off) =
                   SubSeq(code, 1, off)
             /\ SubSeq(comp'.compiling_chunk.code, off + 3, CodeLen) =
                   SubSeq(code, off + 3, CodeLen)
             /\ comp'.compiling_chunk.lines = comp.compiling_chunk.lines]_vars

\* C24: when patch_jump is to encode a distance above 65535, it reports
\* "Jump over too much code.", so that compile returns false.
C24_JumpTooFar ==
    [][(Patched /\ JumpDistance > U16_MAX) =>
          /\ comp'.parser.had_error
          /\ \E i \in DOMAIN comp'.diag :
                comp'.diag[i] = "Jump over too much code."]_vars

\* the step is a call of emit_loop
Looped ==
    /\ Top # 0
    /\ frames[Top].at = "body"
    /\ Len(frames') = Len(frames)
    /\ frames'[Top].at = "patch_exit"

\* C25: emit_loop(loop_start) appends OP_LOOP and two operand bytes; when
\* the operand, the distance from loop_start to the byte after the operand,
\* is at most 65535, a VM standing after the operand that subtracts it
\* stands at loop_start; when it is more, "Loop body too large." is
\* reported: had_error is set, and the message is printed unless an earlier
\* error of the declaration has put the parser in panic mode.
C25_EmitLoop ==
    [][Looped =>
          LET code == comp'.compiling_chunk.code
              loop_start == frames[Top].loop_start
              offset == CodeLen + 3 - loop_start
          IN /\ Len(code) = CodeLen + 3
             /\ SubSeq(code, 1, CodeLen) = comp.compiling_chunk.code
             /\ code[CodeLen + 1] = OP_LOOP
             /\ offset <= U16_MAX =>
                   /\ (CodeLen + 3) - ReadShort(code, CodeLen + 1) = loop_start
                   /\ comp'.parser = comp.parser
                   /\ comp'.diag = comp.diag
             /\ offset > U16_MAX =>
                   /\ comp'.parser.had_error
                   /\ comp'.parser.panic_mode
                   /\ comp'.diag =
                         IF comp.parser.panic_mode THEN comp.diag
                         ELSE Append(comp.diag, "Loop body too large.")]_vars

\* emit_loop has just reported that the body of a while statement, which
\* had compiled without an error, is too large
C25_Witness ==
    /\ Top # 0
    /\ frames[Top].kind = "while"
    /\ frames[Top].at = "patch_exit"
    /\ CodeLen - frames[Top].loop_start > U16_MAX
    /\ comp.compiling_chunk.code[CodeLen - 2] = OP_LOOP
    /\ comp.diag = <<"Loop body too large.">>

(***************************************************************************)
(* Compiler::compile on programs of top-level statements that load         *)
(* constants: numbers, strings, and the names of globals                   *)
(***************************************************************************)
MaxPoolItems == 3

PoolItems ==
    {"0;", "\"s\";", "\"U+00E9a\";", "var a;", "print a;", "a = 0;"}

PoolPrograms == UNION {[1..n -> PoolItems] : n \in 0..MaxPoolItems}

PoolInit ==
    /\ VmInit
    /\ build = "debug"
    /\ prog \in PoolPrograms
    /\ comp = Compiler_new(Render(prog))
    /\ cpc = "start"
    /\ frames = <<>>
    /\ ScannerOff

SpecPool == PoolInit /\ [][DeclNext]_vars

\* the values that the statement is to load, in the order of its
\* instructions: the literals it evaluates and the names it defines, reads
\* or assigns
Intended(item) ==
    CASE item = "0;" -> <<Number(0, 1)>>
      [] item = "\"s\";" -> <<ObjString(<<"s">>)>>
      [] item = "\"U+00E9a\";" -> <<ObjString(<<"U+00E9", "a">>)>>
      [] item = "var a;" -> <<ObjString(<<"a">>)>>
      [] item = "print a;" -> <<ObjString(<<"a">>)>>
      [] item = "a = 0;" -> <<Number(0, 1), ObjString(<<"a">>)>>

RECURSIVE IntendedAll(_, _)
IntendedAll(items, n) ==
    IF n = 0 THEN <<>>
    ELSE IntendedAll(items, n - 1) \o Intended(items[n])

\* the constants that the instructions of the chunk load, from offset i
\* on, in the order of the instructions; Nil where the index is not in the
\* pool
RECURSIVE Loaded(_, _)
Loaded(ch, i) ==
    IF i >= Len(ch.code) THEN <<>>
    ELSE IF ch.code[i + 1] \in {OP_CONSTANT, OP_DEFINE_GLOBAL, OP_GET_GLOBAL,
                                OP_SET_GLOBAL}
    THEN <<IF ch.code[i + 2] < Len(ch.constants)
           THEN ch.constants[ch.code[i + 2] + 1] ELSE Nil>>
            \o Loaded(ch, i + 2)
    ELSE Loaded(ch, i + 1)

\* C26: code and lines have the same length in every state of a
\* compilation; and in the chunk of a finished compilation every
\* OP_CONSTANT, OP_DEFINE_GLOBAL, OP_GET_GLOBAL and OP_SET_GLOBAL has an
\* index inside the pool, at which the pool holds the literal or the name
\* that the statement it was compiled for is to load.
C26_PoolRoundTrip ==
    /\ Len(comp.compiling_chunk.code) = Len(comp.compiling_chunk.lines)
    /\ cpc = "done" =>
          Loaded(comp.compiling_chunk, 0) = IntendedAll(prog, Len(prog))

(***************************************************************************)
(* Compiler::compile inside a block that has declared many locals, one     *)
(* step per declaration, per opening of a nested block and per end of a    *)
(* block                                                                   *)
(***************************************************************************)
MaxScopeItems == 3

ScopeItems == {"{", "}", "var a;", "var b;"}

ScopePrograms == UNION {[1..n -> ScopeItems] : n \in 0..MaxScopeItems}

\* the numbers of locals that the block has declared already
LocalFills == {0, 1, STACK_MAX - 1, STACK_MAX}

\* the declaration of local i and the blank after it: `var a000; `
LocalDecl(i) ==
    <<"v", "a", "r", " ",
      "a", DigitChar[((i \div 100) % 10) + 1],
      DigitChar[((i \div 10) % 10) + 1], DigitChar[(i % 10) + 1],
      ";", " ">>

DeclLen == Len(LocalDecl(0))

\* the offset of the name in the declaration, and its length
NameAt == Len(<<"v", "a", "r", " ">>)

NameLen == Len(<<"a", "0", "0", "0">>)

\* `{ `, then k declarations `var a000; `, `var a001; ` and so on
ScopePrefix(k) ==
    <<"{", " ">> \o
    [p \in 1..(DeclLen * k) |->
        LocalDecl((p - 1) \div DeclLen)[((p - 1) % DeclLen) + 1]]

ScopeSource(k, rest) == ScopePrefix(k) \o RenderItems(rest, Len(rest))

\* the compiler that compile has brought to the end of the prefix: it has
\* opened the block and compiled the k declarations, and its current token
\* is the first one of the rest; the text has one byte per character
InBlock(k, rest) ==
    LET after == [source |-> ScopeSource(k, rest),
                  source_len |-> Len(ScopeSource(k, rest)),
                  start |-> DeclLen * k, current |-> DeclLen * k + 1,
                  line |-> 1, panicked |-> FALSE]
        all == ScanAll(after)
    IN [scanner |-> all[1].sc,
        pending |-> IF Len(all) > 1 THEN Tail(all) ELSE all,
        parser |->
            [current |-> all[1].tok,
             previous |->
                [token_type |-> IF k = 0 THEN "LeftBrace" ELSE "Semicolon",
                 start |-> DeclLen * k, length |-> 1, line |-> 1,
                 error_msg |-> <<>>],
             had_error |-> FALSE,
             panic_mode |-> FALSE],
        compiling_chunk |->
            [code |-> [i \in 1..k |-> OP_NIL],
             constants |-> <<>>,
             lines |-> [i \in 1..k |-> 1]],
        locals |->
            [i \in 1..k |->
                [name |-> [token_type |-> "Identifier",
                           start |-> 2 + DeclLen * (i - 1) + NameAt,
                           length |-> NameLen, line |-> 1,
                           error_msg |-> <<>>],
                 depth |-> 1]],
        local_count |-> k,
        scope_depth |-> 1,
        diag |-> <<>>,
        panicked |-> FALSE]

\* the same compiler as compile reaches it: advance, then the block's
\* begin_scope, then the k calls of declaration
RECURSIVE CompiledInBlock(_, _)
CompiledInBlock(k, src) ==
    IF k = 0 THEN begin_scope(advance(advance(Compiler_new(src))))
    ELSE declaration(CompiledInBlock(k - 1, src))

\* a block that statement has opened; base is the number of locals that
\* were live when it was opened
BlockFrame(c) == [kind |-> "block", at |-> "body", base |-> c.local_count]

\* statement at `{`: lines 594-595, up to the call of block
Scope_Begin ==
    /\ UNCHANGED <<vmAll, scanVars>>
    /\ cpc = "scope"
    /\ check(comp, "LeftBrace")
    /\ comp' = begin_scope(advance(comp))
    /\ frames' = Append(frames, BlockFrame(comp))
    /\ UNCHANGED <<prog, cpc>>

\* one turn of the loop of block, or of the loop of compile outside every
\* block, for a declaration that opens no block
Scope_Declaration ==
    /\ UNCHANGED <<vmAll, scanVars>>
    /\ cpc = "scope"
    /\ ~check(comp, "LeftBrace")
    /\ ~check(comp, "Eof")
    /\ frames # <<>> => ~check(comp, "RightBrace")
    /\ comp' = declaration(comp)
    /\ UNCHANGED <<prog, cpc, frames>>

\* the loop of block ends: block consumes the `}`, statement calls
\* end_scope, and declaration synchronizes when the parser panics
Scope_End ==
    /\ UNCHANGED <<vmAll, scanVars>>
    /\ cpc = "scope"
    /\ frames # <<>>
    /\ check(comp, "RightBrace") \/ check(comp, "Eof")
    /\ LET Sync(c1) == IF c1.parser.panic_mode THEN synchronize(c1) ELSE c1
       IN comp' = Sync(end_scope(
                    consume(comp, "RightBrace", "Expect '}' after block.")))
    /\ frames' = SubSeq(frames, 1, Len(frames) - 1)
    /\ UNCHANGED <<prog, cpc>>

\* the loop of compile ends at Eof
Scope_Finish ==
    /\ UNCHANGED <<vmAll, scanVars>>
    /\ cpc = "scope"
    /\ frames = <<>>
    /\ check(comp, "Eof")
    /\ comp' = end_compiler(advance(comp))
    /\ cpc' = "done"
    /\ UNCHANGED <<prog, frames>>

ScopeInit ==
    /\ VmInit
    /\ build = "debug"
    /\ prog \in ScopePrograms
    /\ comp \in {InBlock(k, prog) : k \in LocalFills}
    /\ cpc = "scope"
    /\ frames = <<[kind |-> "block", at |-> "body", base |-> 0]>>
    /\ ScannerOff

ScopeNext == Scope_Begin \/ Scope_Declaration \/ Scope_End \/ Scope_Finish

SpecScope == ScopeInit /\ [][ScopeNext]_vars


\* the locals that the step has removed from the top of the stack
Removed == (comp'.local_count + 1)..comp.local_count

\* C27: the end of a block decrements scope_depth; the locals it removes
\* are exactly those whose depth is greater than the new scope_depth, and
\* it emits exactly one OP_POP for each of them; the locals that were live
\* when the block was opened, those of the enclosing scopes, stay in place
\* with their indices, names and depths.
C27_EndScope ==
    [][Scope_End =>
        /\ comp'.scope_depth = comp.scope_depth - 1
        /\ comp'.local_count <= comp.local_count
        /\ Removed = {i \in 1..comp.local_count :
                        comp.locals[i].depth > comp'.scope_depth}
        /\ comp'.compiling_chunk.code =
              comp.compiling_chunk.code \o
                  [i \in 1..Cardinality(Removed) |-> OP_POP]
        /\ comp'.local_count >= frames[Len(frames)].base
        /\ \A i \in 1..comp'.local_count :
              comp'.locals[i] = comp.locals[i]]_vars

\* C28: at most STACK_MAX locals are live in every state; a declaration
\* of a local when STACK_MAX are live reports "Too many local variables in
\* function.", leaves the number of live locals as it is, and leaves the
\* name and the depth of every live local as they are.
C28_LocalsLimit ==
    /\ [](comp.local_count <= STACK_MAX)
    /\ [][(/\ Scope_Declaration
           /\ check(comp, "Var")
           /\ comp.scope_depth > 0
           /\ comp.local_count = STACK_MAX) =>
            /\ comp'.diag =
                  Append(comp.diag, "Too many local variables in function.")
            /\ comp'.local_count = comp.local_count
            /\ \A i \in 1..comp.local_count :
                  comp'.locals[i] = comp.locals[i]]_vars


(***************************************************************************)
(* Compiler::compile on programs with syntax errors, one declaration per   *)
(* step: the items are single tokens, `@` is a character that the scanner  *)
(* answers with an Error token                                             *)
(***************************************************************************)
MaxPanicItems == 4

PanicItems == {"0", ";", "@", "print", "var"}

PanicPrograms == UNION {[1..n -> PanicItems] : n \in 0..MaxPanicItems}

PanicInit ==
    /\ VmInit
    /\ build = "debug"
    /\ prog \in PanicPrograms
    /\ comp = Compiler_new(Render(prog))
    /\ cpc = "start"
    /\ frames = <<>>
    /\ ScannerOff

SpecPanic == PanicInit /\ [][DeclNext]_vars

\* the messages of the compiler's calls of error_at
Messages ==
    {"Expect expression.", "Expect ';' after expression.",
     "Expect ';' after value.", "Expect variable name.",
     "Unexpected character."}

\* C29: while the parser is in panic mode a call of error_at reports
\* nothing and leaves the parser as it is; and one call of declaration
\* reports at most one diagnostic.
C29_PanicMode ==
    /\ [](comp.parser.panic_mode =>
            \A m \in Messages :
                \A t \in {comp.parser.current, comp.parser.previous} :
                    error_at(comp, t, m) = comp)
    /\ [][Compile_Declaration =>
            Len(comp'.diag) <= Len(comp.diag) + 1]_vars

\* declaration up to its test of panic_mode: lines 443-447
BeforeSynchronize(c) ==
    IF check(c, "Var") THEN var_declaration(advance(c)) ELSE statement(c)

\* the tokens of the source
SourceTokens(c) ==
    LET all == ScanAll(init_scanner(c.scanner.source))
    IN {all[i].tok : i \in DOMAIN all}

\* the tokens that the parser has left behind on the way from c to c1
Discarded(c, c1) ==
    {t \in SourceTokens(c) : /\ c.parser.current.start <= t.start
                             /\ t.start < c1.parser.current.start}

\* C30: when declaration has called synchronize, panic_mode is false and
\* the current token is Eof, or the previous token is `;`, or the current
\* token is one of class, fun, var, for, if, while, print, return; none of
\* the tokens it has discarded is one of these eight, and a `;` among them
\* is the last one.
C30_Synchronize ==
    [][(Compile_Declaration /\ BeforeSynchronize(comp).parser.panic_mode) =>
        /\ ~comp'.parser.panic_mode
        /\ \/ comp'.parser.current.token_type = "Eof"
           \/ comp'.parser.previous.token_type = "Semicolon"
           \/ comp'.parser.current.token_type \in SyncTokens
        /\ \A t \in Discarded(BeforeSynchronize(comp), comp') :
              /\ t.token_type \notin SyncTokens
              /\ t.token_type = "Semicolon" =>
                    \A u \in Discarded(BeforeSynchronize(comp), comp') :
                        u.start <= t.start]_vars


(***************************************************************************)
(* Compiler::compile on one expression statement: operands joined by       *)
(* binary operators                                                        *)
(***************************************************************************)
MaxOperators == 2

ExprOperands == {"1", "2", "3"}

ExprOperators == {"+", "-", "*", "/", "==", "<"}

\* operand, operator, operand, ..., operand, `;`
ExprPrograms ==
    UNION {{[i \in 1..(2 * n + 2) |->
                IF i = 2 * n + 2 THEN ";"
                ELSE IF i % 2 = 1 THEN operands[(i + 1) \div 2]
                ELSE operators[i \div 2]] :
            operands \in [1..(n + 1) -> ExprOperands],
            operators \in [1..n -> ExprOperators]} : n \in 0..MaxOperators}

ExprInit ==
    /\ VmInit
    /\ build = "debug"
    /\ prog \in ExprPrograms
    /\ comp = Compiler_new(Render(prog))
    /\ cpc = "start"
    /\ frames = <<>>
    /\ ScannerOff

SpecExpr == ExprInit /\ [][DeclNext]_vars

\* an instruction with the constant or the slot that its operand names
Load(op, v) == [op |-> op, v |-> v, slot |-> 0]

Slot(op, slot) == [op |-> op, v |-> Nil, slot |-> slot]

Operate(op) == [op |-> op, v |-> Nil, slot |-> 0]

\* the instructions of the chunk from offset i on
RECURSIVE Decoded(_, _)
Decoded(ch, i) ==
    IF i >= Len(ch.code) THEN <<>>
    ELSE IF ch.code[i + 1] \in {OP_CONSTANT, OP_DEFINE_GLOBAL, OP_GET_GLOBAL,
                                OP_SET_GLOBAL}
    THEN <<Load(ch.code[i + 1],
                IF i + 1 < Len(ch.code)
                   /\ ch.code[i + 2] < Len(ch.constants)
                THEN ch.constants[ch.code[i + 2] + 1] ELSE Nil)>>
            \o Decoded(ch, i + 2)
    ELSE IF ch.code[i + 1] \in {OP_GET_LOCAL, OP_SET_LOCAL}
            /\ i + 1 < Len(ch.code)
    THEN <<Slot(ch.code[i + 1], ch.code[i + 2])>> \o Decoded(ch, i + 2)
    ELSE <<Operate(ch.code[i + 1])>> \o Decoded(ch, i + 1)

\* the levels of the grammar: equality, comparison, term, factor
Level(operator) ==
    CASE operator = "==" -> 1
      [] operator = "<" -> 2
      [] operator \in {"+", "-"} -> 3
      [] operator \in {"*", "/"} -> 4

OperatorCode(operator) ==
    CASE operator = "==" -> OP_EQUAL
      [] operator = "<" -> OP_LESS
      [] operator = "+" -> OP_ADD
      [] operator = "-" -> OP_SUBTRACT
      [] operator = "*" -> OP_MULTIPLY
      [] operator = "/" -> OP_DIVIDE

OperandLoad(operand) ==
    CASE operand = "1" -> Load(OP_CONSTANT, Number(1, 1))
      [] operand = "2" -> Load(OP_CONSTANT, Number(2, 1))
      [] operand = "3" -> Load(OP_CONSTANT, Number(3, 1))

\* the postfix form of items lo..hi of an expression: the operator that is
\* applied last is the rightmost one of the lowest level (operators of one
\* level group to the left); its operands come first, left before right
RECURSIVE Postfix(_, _, _)
Postfix(e, lo, hi) ==
    IF lo = hi THEN <<OperandLoad(e[lo])>>
    ELSE LET ops == {k \in lo..hi : k % 2 = 0}
             last == CHOOSE k \in ops :
                        \A j \in ops :
                            \/ Level(e[k]) < Level(e[j])
                            \/ Level(e[k]) = Level(e[j]) /\ j <= k
         IN Postfix(e, lo, last - 1) \o Postfix(e, last + 1, hi)
                \o <<Operate(OperatorCode(e[last]))>>

\* C31: the chunk compiled for an expression statement is the postfix form
\* of the expression by precedence and left associativity, followed by
\* OP_POP and the final OP_RETURN, and the compilation reports no error.
C31_BinaryPrecedence ==
    cpc = "done" =>
        /\ ~comp.parser.had_error
        /\ Decoded(comp.compiling_chunk, 0) =
              Postfix(prog, 1, Len(prog) - 1)
                  \o <<Operate(OP_POP), Operate(OP_RETURN)>>

\* `1 + 2 * 3;` has compiled to 1, 2, 3, OP_MULTIPLY, OP_ADD
C31_Witness ==
    /\ cpc = "done"
    /\ prog = <<"1", "+", "2", "*", "3", ";">>
    /\ Decoded(comp.compiling_chunk, 0) =
          <<Load(OP_CONSTANT, Number(1, 1)), Load(OP_CONSTANT, Number(2, 1)),
            Load(OP_CONSTANT, Number(3, 1)), Operate(OP_MULTIPLY),
            Operate(OP_ADD), Operate(OP_POP),
            Operate(OP_RETURN)>>


(***************************************************************************)
(* Compiler::compile on one statement `target = value;`, at top level or   *)
(* in a block that declares the local a                                    *)
(***************************************************************************)
TargetOperands == {"a", "b", "1"}

TargetOperators == {"+", "*", "=="}

\* what stands before the `=`: operands joined by binary operators, a
\* negation, or an expression in parentheses
Targets ==
    UNION {{[i \in 1..(2 * n + 1) |->
                IF i % 2 = 1 THEN operands[(i + 1) \div 2]
                ELSE operators[i \div 2]] :
            operands \in [1..(n + 1) -> TargetOperands],
            operators \in [1..n -> TargetOperators]} : n \in 0..MaxOperators}
        \cup {<<"-", "a">>, <<"(", "a", ")">>, <<"(", "b", ")">>}

AssignedValues == {<<"1">>, <<"b">>, <<"1", "+", "b">>}

AssignStatements ==
    {target \o <<"=">> \o value \o <<";">> :
        target \in Targets, value \in AssignedValues}

AssignPrograms ==
    AssignStatements
        \cup {<<"{", "var a;">> \o st \o <<"}">> : st \in AssignStatements}

AssignInit ==
    /\ VmInit
    /\ build = "debug"
    /\ prog \in AssignPrograms
    /\ comp = Compiler_new(Render(prog))
    /\ cpc = "start"
    /\ frames = <<>>
    /\ ScannerOff

SpecAssign == AssignInit /\ [][DeclNext]_vars

\* the statement of the program and what stands before its first `=`
InLocalBlock == prog[1] = "{"

Statement == IF InLocalBlock THEN SubSeq(prog, 3, Len(prog) - 1) ELSE prog

Target ==
    SubSeq(Statement, 1,
           (CHOOSE i \in DOMAIN Statement :
                /\ Statement[i] = "="
                /\ \A j \in 1..(i - 1) : Statement[j] # "=") - 1)

\* the target is a variable name and nothing else
IsVariable(target) == target \in {<<"a">>, <<"b">>}

Stores ==
    {i \in DOMAIN Decoded(comp.compiling_chunk, 0) :
        Decoded(comp.compiling_chunk, 0)[i].op
            \in {OP_SET_LOCAL, OP_SET_GLOBAL}}

\* C32: a statement `target = value;` compiles to a store, without an
\* error, only if the target is a variable name; for every other target
\* the compiler reports "Invalid assignment target.", the compilation
\* fails and the chunk holds no OP_SET_LOCAL and no OP_SET_GLOBAL.
C32_AssignmentTarget ==
    cpc = "done" =>
        IF IsVariable(Target)
        THEN /\ ~comp.parser.had_error
             /\ Cardinality(Stores) = 1
        ELSE /\ comp.parser.had_error
             /\ comp.diag = <<"Invalid assignment target.">>
             /\ Stores = {}

\* `a + b = 1;` has been refused
C32_Witness ==
    /\ cpc = "done"
    /\ prog = <<"a", "+", "b", "=", "1", ";">>
    /\ comp.diag = <<"Invalid assignment target.">>
    /\ comp.parser.had_error


\* the number of digits that follow one another in src from the 0-based
\* position p on
RECURSIVE DigitRun(_, _)
DigitRun(src, p) ==
    IF p < Len(src) /\ is_digit(src[p + 1]) THEN 1 + DigitRun(src, p + 1)
    ELSE 0

\* the length of the number that begins at position q: the digits, and a
\* `.` with the digits after it when there is at least one
NumberLength(src, q) ==
    LET whole == DigitRun(src, q)
        fraction == DigitRun(src, q + whole + 1)
    IN IF CharsNth(src, q + whole) = "." /\ fraction > 0
       THEN whole + 1 + fraction
       ELSE whole

\* the call of this step has begun a token at the character ch
BeginsAt(chars) ==
    /\ token'.token_type # "Eof"
    /\ ~scanner'.panicked
    /\ scanner'.start < Len(scanner.source)
    /\ scanner.source[scanner'.start + 1] \in chars

\* C33: a call that begins a token at a digit returns one Number token:
\* the longest run of digits, together with a `.` and the digits after it
\* when a digit follows the `.`; a call that begins a token at a `.`
\* returns a Dot token of that one character.
C33_Numbers ==
    [][/\ BeginsAt(DOMAIN DigitVal) =>
            /\ token'.token_type = "Number"
            /\ token'.start = scanner'.start
            /\ token'.length = NumberLength(scanner.source, scanner'.start)
            /\ scanner'.current = token'.start + token'.length
       /\ BeginsAt({"."}) =>
            /\ token'.token_type = "Dot"
            /\ token'.start = scanner'.start
            /\ token'.length = 1
            /\ scanner'.current = token'.start + 1]_vars

\* `1.` has been scanned as Number, Dot
C33_Witness ==
    /\ scanner.source = <<"1", ".">>
    /\ token.token_type = "Dot"
    /\ token.start = 1
    /\ token.length = 1

\* the 0-based position of the first character from p on that is neither
\* whitespace nor inside a `//` comment, the end of the source if there is
\* none
RECURSIVE SkipEnd(_, _)
SkipEnd(src, p) ==
    IF p >= Len(src) THEN p
    ELSE IF src[p + 1] \in {" ", "\t", "\r", "\n"} THEN SkipEnd(src, p + 1)
    ELSE IF src[p + 1] = "/" /\ CharsNth(src, p + 1) = "/"
    THEN LET feeds == {k \in p..(Len(src) - 1) : src[k + 1] = "\n"}
         IN IF feeds = {} THEN Len(src)
            ELSE SkipEnd(src, CHOOSE k \in feeds : \A j \in feeds : k <= j)
    ELSE p

\* the call of this step has returned a token
Returned == token'.token_type # NoToken /\ ~scanner'.panicked

\* where the call of this step should begin its token
Begin == SkipEnd(scanner.source, scanner.current)

\* whitespace and comments produce no token: the token begins at the first
\* character after them, and when only they are left no token takes a
\* character of the source
SkipsBlanks ==
    Returned =>
        IF Begin < Len(scanner.source)
        THEN token'.start = Begin
        ELSE token'.start >= Len(scanner.source)

\* a `/` that no `/` follows is a Slash token
SingleSlash ==
    BeginsAt({"/"}) =>
        /\ token'.token_type = "Slash"
        /\ token'.length = 1
        /\ CharsNth(scanner.source, token'.start + 1) # "/"

\* the line of the token returned is 1 + the number of LF characters before
\* its start
LineOfStart ==
    token'.line = 1 + LineFeeds(scanner.source, 0, token'.start)

\* C34 as stated: whitespace and comments produce no token, a single `/`
\* is a Slash token, and every token other than a String token records as
\* its line 1 + the number of LF characters before its start.
C34_LinesOfTokens ==
    [][/\ SkipsBlanks
       /\ SingleSlash
       /\ Returned /\ token'.token_type # "String" => LineOfStart]_vars

\* C34, amended: the same, for every token that does not begin at a quote,
\* that is every token other than a String token and the Error token of an
\* unterminated string, whose line is the line where the source ends.
C34_LinesOutsideStrings ==
    [][/\ SkipsBlanks
       /\ SingleSlash
       /\ Returned /\ ~BeginsAt({"\""}) => LineOfStart]_vars

\* the `a` after a comment and a line feed has been scanned as the first
\* token, on line 2
C34_Witness ==
    /\ scanner.source = <<"/", "/", "\n", "a">>
    /\ token.token_type = "Identifier"
    /\ token.start = 3
    /\ token.line = 2


\* C35: every token that scan_token returns, the Error tokens included,
\* lies inside the source (start + length is at most the length of the
\* source), and begins at or after the end of the token returned before it.
C35_TokensInsideSource ==
    [][Returned =>
          /\ token'.start + token'.length <= SourceLen(scanner)
          /\ token.token_type # NoToken =>
                token'.start >= token.start + token.length]_vars


\* the text of a value: for a string its characters, for the other
\* variants what their Display writes
ValueText(v) == IF v.t = "str" THEN v.s ELSE print_value(v)

\* C39: OP_PRINT pops one value and appends to the output the text of the
\* value and one newline, whatever the variant; OP_RETURN ends run with
\* InterpretOk and OP_CONSTANT pushes its constant, and neither of the two
\* writes to the output.
C39_OutputOfPrintOnly ==
    [][pc = "run" /\ pc' # "panicked" /\ ip < Len(chunk.code) =>
          LET op == chunk.code[ip + 1] IN
          /\ op = OP_PRINT =>
                /\ stack # <<>>
                /\ stack' = pop(stack)
                /\ output' = output \o ValueText(peek(stack, 0)) \o <<"\n">>
          /\ op = OP_RETURN =>
                /\ pc' = "idle"
                /\ result' = "InterpretOk"
                /\ output' = output
          /\ op = OP_CONSTANT =>
                /\ stack' = push(stack, chunk.constants[chunk.code[ip + 2] + 1])
                /\ output' = output]_vars


(***************************************************************************)
(* VM::run on the chunk of a program of many statements `nil;`, whose code *)
(* is longer than a u8 can address                                         *)
(***************************************************************************)
\* the numbers of statements: chunks of 3, 255, 257 and 259 bytes
LongFills == {1, 127, 128, 129}

\* the text of k statements `nil;`
NilStatements(k) ==
    [i \in 1..(4 * k) |->
        CASE i % 4 = 1 -> "n" [] i % 4 = 2 -> "i" [] i % 4 = 3 -> "l"
          [] OTHER -> ";"]

\* the chunk compile leaves for it: OP_NIL, OP_POP for each statement,
\* then the OP_RETURN of end_compiler, all on line 1
LongChunk(k) ==
    [code |-> [i \in 1..(2 * k + 1) |->
                    IF i = 2 * k + 1 THEN OP_RETURN
                    ELSE IF i % 2 = 1 THEN OP_NIL ELSE OP_POP],
     constants |-> <<>>,
     lines |-> [i \in 1..(2 * k + 1) |-> 1]]

\* the state in which interpret calls run on a fresh VM
LongInit ==
    /\ \E k \in LongFills :
          /\ source = NilStatements(k)
          /\ chunk = LongChunk(k)
    /\ ip = 0
    /\ stack = <<>>
    /\ strings = init_table
    /\ globals = init_table
    /\ pc = "run"
    /\ result = "none"
    /\ diag = <<>>
    /\ output = <<>>
    /\ calls = 1
    /\ build \in Builds
    /\ CompilerOff
    /\ ScannerOff

LongNext == Run_Literal \/ Run_Pop \/ Run_Return

SpecLong == LongInit /\ [][LongNext]_vars

\* the number of operand bytes the compiler emits after the opcode
OperandBytes(op) ==
    IF op \in {OP_CONSTANT, OP_DEFINE_GLOBAL, OP_GET_GLOBAL, OP_SET_GLOBAL,
               OP_GET_LOCAL, OP_SET_LOCAL} THEN 1
    ELSE IF op \in {OP_JUMP_IF_FALSE, OP_JUMP, OP_LOOP} THEN 2
    ELSE 0

\* C36: whatever the length of the chunk, a step of run that fetches an
\* instruction does not panic and leaves ip at the offset of the next
\* instruction, the offset not taken modulo 256; and run ends only by
\* fetching the OP_RETURN that is the last byte of the chunk.
C36_IpAddressesChunk ==
    [][pc = "run" =>
          /\ pc' # "panicked"
          /\ ip < Len(chunk.code)
          /\ ip' = ip + 1 + OperandBytes(chunk.code[ip + 1])
          /\ pc' = "idle" =>
                ip = Len(chunk.code) - 1 /\ chunk.code[ip + 1] = OP_RETURN]_vars


\* the names of the opcodes of the instruction set
OpCodeName ==
    [op \in 0..23 |->
        CASE op = OP_RETURN -> "OP_RETURN"
          [] op = OP_CONSTANT -> "OP_CONSTANT"
          [] op = OP_NEGATE -> "OP_NEGATE"
          [] op = OP_ADD -> "OP_ADD"
          [] op = OP_SUBTRACT -> "OP_SUBTRACT"
          [] op = OP_MULTIPLY -> "OP_MULTIPLY"
          [] op = OP_DIVIDE -> "OP_DIVIDE"
          [] op = OP_NIL -> "OP_NIL"
          [] op = OP_TRUE -> "OP_TRUE"
          [] op = OP_FALSE -> "OP_FALSE"
          [] op = OP_NOT -> "OP_NOT"
          [] op = OP_EQUAL -> "OP_EQUAL"
          [] op = OP_GREATER -> "OP_GREATER"
          [] op = OP_LESS -> "OP_LESS"
          [] op = OP_PRINT -> "OP_PRINT"
          [] op = OP_POP -> "OP_POP"
          [] op = OP_DEFINE_GLOBAL -> "OP_DEFINE_GLOBAL"
          [] op = OP_GET_GLOBAL -> "OP_GET_GLOBAL"
          [] op = OP_SET_GLOBAL -> "OP_SET_GLOBAL"
          [] op = OP_GET_LOCAL -> "OP_GET_LOCAL"
          [] op = OP_SET_LOCAL -> "OP_SET_LOCAL"
          [] op = OP_JUMP_IF_FALSE -> "OP_JUMP_IF_FALSE"
          [] op = OP_JUMP -> "OP_JUMP"
          [] op = OP_LOOP -> "OP_LOOP"]

\* the offsets from i on at which the instructions of the code begin, by
\* the operand bytes the compiler has emitted
RECURSIVE Boundaries(_, _)
Boundaries(code, i) ==
    IF i >= Len(code) THEN {}
    ELSE {i} \cup Boundaries(code, i + 1 + OperandBytes(code[i + 1]))

\* C37: at every instruction of a chunk compiled without error,
\* disassemble_instruction returns the offset of the next instruction,
\* index + 1 + the number of operand bytes of the opcode, and prints the
\* opcode under its own name, so that disassemble_chunk goes from
\* instruction to instruction.
C37_Disassembler ==
    cpc = "done" /\ ~comp.parser.had_error =>
        \A i \in Boundaries(comp.compiling_chunk.code, 0) :
            LET op == comp.compiling_chunk.code[i + 1] IN
            /\ disassemble_instruction(comp.compiling_chunk, i) =
                    i + 1 + OperandBytes(op)
            /\ disassemble_name(op) = OpCodeName[op]


\* the number of values the handler of the opcode pops or peeks
Operands(op) ==
    IF op \in {OP_ADD, OP_SUBTRACT, OP_MULTIPLY, OP_DIVIDE, OP_EQUAL,
               OP_GREATER, OP_LESS} THEN 2
    ELSE IF op \in {OP_NOT, OP_NEGATE, OP_PRINT, OP_POP, OP_DEFINE_GLOBAL}
    THEN 1
    ELSE 0

\* C38: while run executes the chunk of a successful compile the stack
\* holds at most STACK_SIZE values, and whenever run is about to fetch an
\* instruction the stack holds the values the instruction pops or peeks.
C38_StackBounds ==
    pc = "run" =>
        /\ Len(stack) <= STACK_SIZE
        /\ ip < Len(chunk.code) => Len(stack) >= Operands(chunk.code[ip + 1])


\* the declaration of this step has consumed a token: the current token is
\* a later one, or the Eof token
ConsumesToken ==
    \/ comp'.parser.current.start > comp.parser.current.start
    \/ comp'.parser.current.token_type = "Eof"

\* every token at which the infix loop of parse_precedence can run, for a
\* precedence of Assignment or above, has an infix handler
InfixHandlers ==
    \A tt \in TokenTypes :
        get_rule(tt).precedence >= PREC_ASSIGNMENT => get_rule(tt).infix # "none"

\* C40: compile comes to its end on every source: no step of it ends in a
\* panic, every turn of a declaration loop consumes at least one token,
\* the infix loop finds a handler for every token it runs for, and what
\* advance leaves in parser.current and parser.previous is never an Error
\* token.
C40_CompileTerminates ==
    [][cpc' # cpc \/ comp' # comp =>
          /\ ~comp'.panicked
          /\ cpc = cpc' => ConsumesToken
          /\ InfixHandlers
          /\ comp'.parser.current.token_type # "Error"
          /\ comp'.parser.previous.token_type # "Error"]_vars

=============================================================================
